---- MODULE Spec2Model ----
(***************************************************************************)
(* Snowfall alert system: the decision engine (src/core/processor.py) and  *)
(* the cross-source verification (src/weather/client.py).                  *)
(*                                                                         *)
(* Numbers.  Snow amounts are Python floats.  Every amount in inches is    *)
(* held here as the exact integer  amount * Scale  (Scale = 2540), so that *)
(* a primary reading given in tenths of an inch and a secondary reading    *)
(* given in millimetres (tenths of the provider's totalsnow_cm) divided by *)
(* 2.54 are both integers and every comparison of the code is exact.       *)
(* Time is counted in hours since the processor was constructed.           *)
(*                                                                         *)
(* The HTTP client (WeatherAPIClient: cache, retry, back-off) is followed  *)
(* as one long-lived instance under SpecClient, with its own clock in      *)
(* seconds.                                                                *)
(***************************************************************************)
EXTENDS Integers, Sequences, FiniteSets, TLC

VARIABLES
    thresholds,     \* settings.THRESHOLD_LIGHT / _MODERATE / _HEAVY as loaded at import
    now,            \* datetime.now(), in hours
    last_alerts,    \* SnowfallProcessor.last_alerts: resort -> (category -> time)
    result,         \* <<>> or <<r>>: the dict process_resort has just returned
    alert_log,      \* history: every alert process_resort has triggered
    passes,         \* history: number of process_resort calls so far
    batch,          \* <<>> or <<b>>: the run of lambda_handler under way or returned
    invocations,    \* history: number of lambda_handler invocations so far
    in_flight,      \* thread -> <<>> or <<c>>: a process_resort call of that thread under way
    cache_enabled,  \* WeatherAPIClient.cache_enabled
    cache,          \* WeatherAPIClient.cache: key -> payload
    cache_expiry,   \* WeatherAPIClient.cache_expiry: key -> time, in seconds
    clock,          \* datetime.now() in seconds, as the client reads it
    response,       \* <<>> or <<r>>: how the last _make_request call ended
    requests,       \* history: number of _make_request calls so far
    provider,       \* the payloads the two providers answer with
    observation     \* <<>> or <<d>>: what an adapter's get_snow_data returned

processor_vars ==
    <<thresholds, now, last_alerts, result, alert_log, passes, batch, invocations,
      in_flight>>
client_vars == <<cache_enabled, cache, cache_expiry, clock, response, requests>>
adapter_vars == <<provider, observation>>
vars == <<processor_vars, client_vars, adapter_vars>>

---------------------------------------------------------------------------
\* Bounds of the model.
MaxTicks == 3
MaxPasses == 2
MaxRequests == 2
MaxRetries == 4
MaxBuckets == 9
MaxInvocations == 2

---------------------------------------------------------------------------
\* Program constants (defaults of the environment variables).
THRESHOLD_LIGHT == 2
THRESHOLD_MODERATE == 6
THRESHOLD_HEAVY == 12
VERIFICATION_THRESHOLD == 2
ALERT_COOLDOWN_HOURS == 12
\* Hours between two scheduled runs; the clock of the model advances in
\* these steps.
CHECK_FREQUENCY == 6
\* snow_inches = snow_cm / 2.54
CM_PER_INCH_X100 == 254
\* CACHE_TTL, in seconds, and the defaults of _make_request's max_retries
\* and retry_delay.
CACHE_TTL == 300
DEFAULT_MAX_RETRIES == 3
DEFAULT_RETRY_DELAY == 1
\* Forecast periods (of 3 hours) that get_snow_data adds up.
FORECAST_PERIODS == 8

\* Fixed-point denominator: an amount of x inches is the integer x * Scale.
Scale == 10 * CM_PER_INCH_X100

\* A provider figure given in tenths of an inch.
Inches10(t) == (t * Scale) \div 10

Resorts == {"Alta", "Snowbird"}
Categories == {"light", "moderate", "heavy"}
\* Python's None, where a string is expected.
None == "None"

\* What the providers can answer, chosen around the thresholds and the
\* verification tolerance.
PrimaryTenths == {0, 19, 20, 59, 60, 119, 120}
ForecastTenths == {0, 20}
SecondaryMm == {0, 102, 127, 254, 305}

EmptyDict == [x \in {} |-> 0]

\* The threads that may call process_resort on one SnowfallProcessor, and
\* the state in which none of them does.
Threads == {"T1", "T2"}
NoCalls == [t \in Threads |-> <<>>]

---------------------------------------------------------------------------
\* WeatherApiClient.get_snow_data as seen by its caller.  The provider's
\* answer w is one of
\*   [kind |-> "ok", mm |-> m]     a payload whose totalsnow_cm is m/10
\*   [kind |-> "request_error"]    _make_request raised after its retries
\*   [kind |-> "bad_payload"]      a payload the extraction raises on
\*                                 (empty forecastday list, non-numeric total)
WeatherApiAnswers ==
    {[kind |-> "ok", mm |-> m] : m \in SecondaryMm}
        \cup {[kind |-> "request_error", mm |-> 0], [kind |-> "bad_payload", mm |-> 0]}

\* The answer when no request is made.
NoRequest == [kind |-> "no_request", mm |-> 0]

\* WeatherApiClient.get_snow_data taking the centimetres for inches.
WeatherApi_get_snow_data_no_conversion(w) ==
    IF w.kind = "ok"
    THEN [raised |-> FALSE,
          snow_mm |-> w.mm,
          snow_inches |-> (w.mm * Scale) \div 10]
    ELSE [raised |-> TRUE, snow_mm |-> 0, snow_inches |-> 0]

WeatherApi_get_snow_data(w) ==
    IF w.kind = "ok"
    THEN [raised |-> FALSE,
          snow_mm |-> w.mm,
          snow_inches |-> (w.mm * Scale * 10) \div CM_PER_INCH_X100]
    ELSE [raised |-> TRUE, snow_mm |-> 0, snow_inches |-> 0]

Abs(x) == IF x < 0 THEN -x ELSE x

\* verify_with_secondary_source comparing with < : the boundary disagrees.
verify_with_secondary_source_strict(primary_snow_amount, w) ==
    LET secondary_data == WeatherApi_get_snow_data(w)
        calls == <<"sleep", "weatherapi">>
    IN  IF secondary_data.raised
        THEN [raised |-> FALSE, is_verified |-> FALSE,
              secondary_data |-> <<>>, calls |-> calls]
        ELSE [raised |-> FALSE,
              is_verified |-> Abs(primary_snow_amount - secondary_data.snow_inches)
                                < VERIFICATION_THRESHOLD * Scale,
              secondary_data |-> <<secondary_data>>, calls |-> calls]

\* verify_with_secondary_source without its except clause.
verify_with_secondary_source_no_except(primary_snow_amount, w) ==
    LET secondary_data == WeatherApi_get_snow_data(w)
        calls == <<"sleep", "weatherapi">>
    IN  IF secondary_data.raised
        THEN [raised |-> TRUE, is_verified |-> FALSE,
              secondary_data |-> <<>>, calls |-> calls]
        ELSE [raised |-> FALSE,
              is_verified |-> Abs(primary_snow_amount - secondary_data.snow_inches)
                                <= VERIFICATION_THRESHOLD * Scale,
              secondary_data |-> <<secondary_data>>, calls |-> calls]

\* verify_with_secondary_source pausing after the secondary request.
verify_with_secondary_source_sleep_after(primary_snow_amount, w) ==
    LET secondary_data == WeatherApi_get_snow_data(w)
        calls == IF secondary_data.raised
                 THEN <<"weatherapi">>
                 ELSE <<"weatherapi", "sleep">>
    IN  IF secondary_data.raised
        THEN [raised |-> FALSE, is_verified |-> FALSE,
              secondary_data |-> <<>>, calls |-> calls]
        ELSE [raised |-> FALSE,
              is_verified |-> Abs(primary_snow_amount - secondary_data.snow_inches)
                                <= VERIFICATION_THRESHOLD * Scale,
              secondary_data |-> <<secondary_data>>, calls |-> calls]

\* verify_with_secondary_source: time.sleep(1), the secondary fetch, the
\* comparison; "except Exception" turns every failure into (False, None).
\* secondary_data is <<>> for None and <<d>> for the dict d.
verify_with_secondary_source(primary_snow_amount, w) ==
    LET secondary_data == WeatherApi_get_snow_data(w)
        calls == <<"sleep", "weatherapi">>
    IN  IF secondary_data.raised
        THEN [raised |-> FALSE, is_verified |-> FALSE,
              secondary_data |-> <<>>, calls |-> calls]
        ELSE IF Abs(primary_snow_amount - secondary_data.snow_inches)
                    <= VERIFICATION_THRESHOLD * Scale
             THEN [raised |-> FALSE, is_verified |-> TRUE,
                   secondary_data |-> <<secondary_data>>, calls |-> calls]
             ELSE [raised |-> FALSE, is_verified |-> FALSE,
                   secondary_data |-> <<secondary_data>>, calls |-> calls]

---------------------------------------------------------------------------
\* OpenWeatherMapClient.get_snow_data as seen by its caller.  The primary
\* provider's answer o is one of
\*   [kind |-> "ok", current |-> c, forecast |-> f]   numeric snow figures,
\*                                                in tenths of an inch
\*   [kind |-> "snow_dict", ...]   a current-conditions payload whose "snow"
\*                                 is a dict without a non-zero "1h" entry:
\*                                 current_snow is then that dict
\*   [kind |-> "fail", ...]        a request or an extraction raised
\* and fb is the secondary provider's answer to the fallback request.
OpenWeatherMapAnswers ==
    {[kind |-> "ok", current |-> c, forecast |-> f] :
        c \in PrimaryTenths, f \in ForecastTenths}
        \cup {[kind |-> "snow_dict", current |-> 0, forecast |-> 0],
              [kind |-> "fail", current |-> 0, forecast |-> 0]}

\* OpenWeatherMapClient.get_snow_data without the except clause around its
\* fallback request.
OpenWeatherMap_get_snow_data_no_inner_except(o, fb) ==
    IF o.kind = "ok"
    THEN [raised |-> FALSE,
          current_snow |-> Inches10(o.current), numeric |-> TRUE,
          forecast_snow |-> Inches10(o.forecast),
          source |-> "OpenWeatherMap (Free API)"]
    ELSE IF o.kind = "snow_dict"
    THEN [raised |-> FALSE,
          current_snow |-> 0, numeric |-> FALSE,
          forecast_snow |-> Inches10(o.forecast),
          source |-> "OpenWeatherMap (Free API)"]
    ELSE LET secondary_data == WeatherApi_get_snow_data(fb)
         IN  IF ~secondary_data.raised
             THEN [raised |-> FALSE,
                   current_snow |-> secondary_data.snow_inches, numeric |-> TRUE,
                   forecast_snow |-> 0, source |-> "Fallback: WeatherAPI.com"]
             ELSE [raised |-> TRUE,
                   current_snow |-> 0, numeric |-> TRUE,
                   forecast_snow |-> 0, source |-> None]

\* OpenWeatherMapClient.get_snow_data whose fallback reads the secondary
\* provider's centimetres ("snow_cm") as its current snow.
OpenWeatherMap_get_snow_data_fallback_cm(o, fb) ==
    IF o.kind = "ok"
    THEN [raised |-> FALSE,
          current_snow |-> Inches10(o.current), numeric |-> TRUE,
          forecast_snow |-> Inches10(o.forecast),
          source |-> "OpenWeatherMap (Free API)"]
    ELSE IF o.kind = "snow_dict"
    THEN [raised |-> FALSE,
          current_snow |-> 0, numeric |-> FALSE,
          forecast_snow |-> Inches10(o.forecast),
          source |-> "OpenWeatherMap (Free API)"]
    ELSE LET secondary_data == WeatherApi_get_snow_data(fb)
         IN  IF ~secondary_data.raised
             THEN [raised |-> FALSE,
                   current_snow |-> (secondary_data.snow_mm * Scale) \div 10,
                   numeric |-> TRUE,
                   forecast_snow |-> 0, source |-> "Fallback: WeatherAPI.com"]
             ELSE [raised |-> FALSE,
                   current_snow |-> 0, numeric |-> TRUE,
                   forecast_snow |-> 0, source |-> "Default values (API errors)"]

OpenWeatherMap_get_snow_data(o, fb) ==
    IF o.kind = "ok"
    THEN [raised |-> FALSE,
          current_snow |-> Inches10(o.current), numeric |-> TRUE,
          forecast_snow |-> Inches10(o.forecast),
          source |-> "OpenWeatherMap (Free API)"]
    ELSE IF o.kind = "snow_dict"
    THEN [raised |-> FALSE,
          current_snow |-> 0, numeric |-> FALSE,
          forecast_snow |-> Inches10(o.forecast),
          source |-> "OpenWeatherMap (Free API)"]
    ELSE LET secondary_data == WeatherApi_get_snow_data(fb)
         IN  IF ~secondary_data.raised
             THEN [raised |-> FALSE,
                   current_snow |-> secondary_data.snow_inches, numeric |-> TRUE,
                   forecast_snow |-> 0, source |-> "Fallback: WeatherAPI.com"]
             ELSE [raised |-> FALSE,
                   current_snow |-> 0, numeric |-> TRUE,
                   forecast_snow |-> 0, source |-> "Default values (API errors)"]

\* get_resort_snow_data: the client's data, or an exception wrapping any
\* the client raised (get_snow_data catches its own).
get_resort_snow_data(o, fb) ==
    LET snow_data == OpenWeatherMap_get_snow_data(o, fb)
    IN  [raised |-> snow_data.raised, snow_data |-> snow_data]

\* The fallback request is made only when the primary provider failed.
FallbackAnswers(o) ==
    IF o.kind = "fail" THEN WeatherApiAnswers ELSE {NoRequest}

---------------------------------------------------------------------------
\* The providers' payloads and what the adapters extract from them.
\*
\* A "snow" entry of an OpenWeatherMap payload (of the current conditions,
\* key "1h", or of a forecast period, key "3h") has one of four shapes:
\*   absent        no "snow" key
\*   scalar        "snow": amount
\*   nested        "snow": {key: amount}
\*   nested_other  "snow": a dict without the key
\* Amounts are in tenths of an inch.
SnowAmounts == {0, 10, 25}

SnowEntries ==
    {[shape |-> "absent", amount |-> 0], [shape |-> "nested_other", amount |-> 0]}
      \cup [shape : {"scalar", "nested"}, amount : SnowAmounts]

\* x.get("snow", {}).get(key, 0): a scalar has no get and raises.
nested_get(snow) ==
    IF snow.shape = "scalar" THEN [raised |-> TRUE, value |-> 0]
    ELSE IF snow.shape = "nested" THEN [raised |-> FALSE, value |-> snow.amount]
    ELSE [raised |-> FALSE, value |-> 0]

\* current_snow of get_snow_data (the two statements on "1h" and on the
\* alternate format): numeric says whether the value is a number; when the
\* "1h" amount is falsy the value is whatever "snow" holds, 0 by default.
current_snow_of(snow) ==
    LET first == nested_get(snow)
    IN  IF first.raised
        THEN [raised |-> TRUE, numeric |-> FALSE, value |-> 0]
        ELSE IF first.value # 0
        THEN [raised |-> FALSE, numeric |-> TRUE, value |-> first.value]
        ELSE IF snow.shape = "absent"
        THEN [raised |-> FALSE, numeric |-> TRUE, value |-> 0]
        ELSE IF snow.shape = "scalar"
        THEN [raised |-> FALSE, numeric |-> TRUE, value |-> snow.amount]
        ELSE [raised |-> FALSE, numeric |-> FALSE, value |-> 0]

\* period_snow of one forecast period.
period_snow_of(snow) ==
    LET first == nested_get(snow)
    IN  IF first.raised
        THEN first
        ELSE IF first.value = 0 /\ snow.shape = "scalar"
        THEN [raised |-> FALSE, value |-> snow.amount]
        ELSE first

Min(a, b) == IF a < b THEN a ELSE b

\* The loop over forecast_data.get("list", [])[:8]: forecast_snow, or the
\* exception of the first period that raises.
RECURSIVE forecast_snow_sum(_)
forecast_snow_sum(list) ==
    IF list = <<>>
    THEN [raised |-> FALSE, value |-> 0]
    ELSE LET first == period_snow_of(Head(list))
             rest == forecast_snow_sum(Tail(list))
         IN  IF first.raised \/ rest.raised
             THEN [raised |-> TRUE, value |-> 0]
             ELSE [raised |-> FALSE, value |-> first.value + rest.value]

forecast_snow_of(list) ==
    forecast_snow_sum(SubSeq(list, 1, Min(FORECAST_PERIODS, Len(list))))

\* The current-conditions answer: the request fails, or a payload with a
\* "snow" entry.
CurrentAnswers ==
    {[kind |-> "request_error", snow |-> [shape |-> "absent", amount |-> 0]]}
      \cup [kind : {"ok"}, snow : SnowEntries]

\* Forecast lists of up to MaxBuckets periods: every period reports
\* {"3h": 1.0}, except at most one period which has any other snow entry.
Usual == [shape |-> "nested", amount |-> 10]

ForecastLists ==
    UNION {
      {[i \in 1..n |-> Usual]}
        \cup {[i \in 1..n |-> IF i = k THEN snow ELSE Usual] :
                k \in 1..n, snow \in SnowEntries \ {Usual}}
      : n \in 0..MaxBuckets }

\* The WeatherAPI.com forecast answer: the request fails, or a payload
\* whose totalsnow_cm is a number of millimetres, is null, or is missing
\* together with nothing, "day", "forecastday" or "forecast" around it, or
\* whose "forecastday" list is empty.
TotalShapes ==
    {"number", "null", "no_total", "no_day", "no_forecastday", "no_forecast",
     "empty_forecastday"}

SecondaryAnswers ==
    {[kind |-> "request_error", total |-> "no_total", mm |-> 0]}
      \cup {[kind |-> "ok", total |-> "number", mm |-> mm] : mm \in SecondaryMm}
      \cup [kind : {"ok"}, total : TotalShapes \ {"number"}, mm : {0}]

\* What WeatherApiClient.get_snow_data meets in such an answer: the chain of
\* get(..., default) gives 0 for a missing total, [][0] raises on an empty
\* list and None / 2.54 raises.
WeatherApiAnswerOf(s) ==
    IF s.kind # "ok"
    THEN [kind |-> "request_error", mm |-> 0]
    ELSE IF s.total = "number"
    THEN [kind |-> "ok", mm |-> s.mm]
    ELSE IF s.total \in {"null", "empty_forecastday"}
    THEN [kind |-> "bad_payload", mm |-> 0]
    ELSE [kind |-> "ok", mm |-> 0]

\* What OpenWeatherMapClient.get_snow_data extracts from the two primary
\* answers, as an element of the kinds of OpenWeatherMapAnswers.
OpenWeatherMapAnswerOf(current, list) ==
    LET current_snow == current_snow_of(current.snow)
        forecast_snow == forecast_snow_of(list)
    IN  IF current.kind # "ok" \/ current_snow.raised \/ forecast_snow.raised
        THEN [kind |-> "fail", current |-> 0, forecast |-> 0]
        ELSE IF ~current_snow.numeric
        THEN [kind |-> "snow_dict", current |-> 0, forecast |-> forecast_snow.value]
        ELSE [kind |-> "ok", current |-> current_snow.value,
              forecast |-> forecast_snow.value]

\* OpenWeatherMapClient.get_snow_data on the providers' payloads.
get_snow_data(p) ==
    LET o == OpenWeatherMapAnswerOf(p.current, p.list)
    IN  OpenWeatherMap_get_snow_data(
            o, IF o.kind = "fail" THEN WeatherApiAnswerOf(p.secondary) ELSE NoRequest)

ProviderPayloads ==
    [current : CurrentAnswers, list : ForecastLists, secondary : SecondaryAnswers]

NoPayloads ==
    [current |-> [kind |-> "ok", snow |-> [shape |-> "absent", amount |-> 0]],
     list |-> <<>>,
     secondary |-> [kind |-> "ok", total |-> "no_total", mm |-> 0]]

---------------------------------------------------------------------------
\* SnowfallProcessor

\* _load_last_alerts: nothing is persisted, the map starts empty.
load_last_alerts == EmptyDict

\* is_in_cooldown comparing with <= : the cooldown lasts one instant too long.
is_in_cooldown_inclusive(resort_name, category) ==
    IF resort_name \notin DOMAIN last_alerts
    THEN FALSE
    ELSE IF category \notin DOMAIN last_alerts[resort_name]
    THEN FALSE
    ELSE now <= last_alerts[resort_name][category] + ALERT_COOLDOWN_HOURS

\* is_in_cooldown with the comparison turned round.
is_in_cooldown_reversed(resort_name, category) ==
    IF resort_name \notin DOMAIN last_alerts
    THEN FALSE
    ELSE IF category \notin DOMAIN last_alerts[resort_name]
    THEN FALSE
    ELSE now > last_alerts[resort_name][category] + ALERT_COOLDOWN_HOURS

is_in_cooldown(resort_name, category) ==
    IF resort_name \notin DOMAIN last_alerts
    THEN FALSE
    ELSE IF category \notin DOMAIN last_alerts[resort_name]
    THEN FALSE
    ELSE LET last_time == last_alerts[resort_name][category]
             cooldown_period == ALERT_COOLDOWN_HOURS
         IN  now < last_time + cooldown_period

\* update_last_alert_time stamping every category of the resort.
update_last_alert_time_all(resort_name, category) ==
    LET present == IF resort_name \notin DOMAIN last_alerts
                   THEN (resort_name :> EmptyDict) @@ last_alerts
                   ELSE last_alerts
    IN  [present EXCEPT ![resort_name] = [c \in Categories |-> now]]

\* update_last_alert_time keeping the time a pair already has.
update_last_alert_time_keep_first(resort_name, category) ==
    LET present == IF resort_name \notin DOMAIN last_alerts
                   THEN (resort_name :> EmptyDict) @@ last_alerts
                   ELSE last_alerts
    IN  [present EXCEPT ![resort_name] = present[resort_name] @@ (category :> now)]

\* The map after update_last_alert_time(resort_name, category).
update_last_alert_time(resort_name, category) ==
    LET present == IF resort_name \notin DOMAIN last_alerts
                   THEN (resort_name :> EmptyDict) @@ last_alerts
                   ELSE last_alerts
    IN  [present EXCEPT ![resort_name] = (category :> now) @@ present[resort_name]]

\* determine_alert_category comparing with > : a tie gets the lower category.
determine_alert_category_strict(snow_amount) ==
    IF snow_amount > thresholds.heavy
    THEN "heavy"
    ELSE IF snow_amount > thresholds.moderate
    THEN "moderate"
    ELSE IF snow_amount > thresholds.light
    THEN "light"
    ELSE "none"

\* determine_alert_category with the labels of two branches exchanged.
determine_alert_category_swapped(snow_amount) ==
    IF snow_amount >= thresholds.heavy
    THEN "moderate"
    ELSE IF snow_amount >= thresholds.moderate
    THEN "heavy"
    ELSE IF snow_amount >= thresholds.light
    THEN "light"
    ELSE "none"

determine_alert_category(snow_amount) ==
    IF snow_amount >= thresholds.heavy
    THEN "heavy"
    ELSE IF snow_amount >= thresholds.moderate
    THEN "moderate"
    ELSE IF snow_amount >= thresholds.light
    THEN "light"
    ELSE "none"

\* calculate_time_window_data reporting the 48 h total as the current window.
calculate_time_window_data_total(current_data) ==
    IF ~current_data.numeric
    THEN [raised |-> TRUE, current_24h |-> 0, forecast_24h |-> 0, total_48h |-> 0]
    ELSE [raised |-> FALSE,
          current_24h |-> current_data.current_snow + current_data.forecast_snow,
          forecast_24h |-> current_data.forecast_snow,
          total_48h |-> current_data.current_snow + current_data.forecast_snow]

\* current_data.get("current_snow", 0) + current_data.get("forecast_snow", 0)
\* raises a TypeError when current_snow is not a number.
calculate_time_window_data(current_data) ==
    IF ~current_data.numeric
    THEN [raised |-> TRUE, current_24h |-> 0, forecast_24h |-> 0, total_48h |-> 0]
    ELSE [raised |-> FALSE,
          current_24h |-> current_data.current_snow,
          forecast_24h |-> current_data.forecast_snow,
          total_48h |-> current_data.current_snow + current_data.forecast_snow]

\* should_trigger_alert without the verification check.
should_trigger_alert_no_gate(resort_name, current_24h, is_verified) ==
    LET category == determine_alert_category(current_24h)
    IN  IF category = "none"
        THEN [should_alert |-> FALSE, category |-> None]
        ELSE IF is_in_cooldown(resort_name, category)
        THEN [should_alert |-> FALSE, category |-> None]
        ELSE [should_alert |-> TRUE, category |-> category]

\* should_trigger_alert without the cooldown check.
should_trigger_alert_no_cooldown(resort_name, current_24h, is_verified) ==
    IF current_24h >= thresholds.light /\ ~is_verified
    THEN [should_alert |-> FALSE, category |-> None]
    ELSE LET category == determine_alert_category(current_24h)
         IN  IF category = "none"
             THEN [should_alert |-> FALSE, category |-> None]
             ELSE [should_alert |-> TRUE, category |-> category]

\* should_trigger_alert answering (True, "none") below every threshold.
should_trigger_alert_none(resort_name, current_24h, is_verified) ==
    IF current_24h >= thresholds.light /\ ~is_verified
    THEN [should_alert |-> FALSE, category |-> None]
    ELSE LET category == determine_alert_category(current_24h)
         IN  IF category # "none" /\ is_in_cooldown(resort_name, category)
             THEN [should_alert |-> FALSE, category |-> None]
             ELSE [should_alert |-> TRUE, category |-> category]

\* The pair (should_alert, category) as a record.
should_trigger_alert(resort_name, current_24h, is_verified) ==
    IF current_24h >= thresholds.light /\ ~is_verified
    THEN [should_alert |-> FALSE, category |-> None]
    ELSE LET category == determine_alert_category(current_24h)
         IN  IF category = "none"
             THEN [should_alert |-> FALSE, category |-> None]
             ELSE IF is_in_cooldown(resort_name, category)
             THEN [should_alert |-> FALSE, category |-> None]
             ELSE [should_alert |-> TRUE, category |-> category]

\* The test of line 243 with > for >=.
needs_verification_strict(current_24h) == current_24h > thresholds.light

\* process_resort's test of line 243: verify only significant snow.
needs_verification(current_24h) == current_24h >= thresholds.light

\* The initial dict with alert_triggered set from the start.
initial_result_triggered(resort_name) ==
    [resort |-> resort_name, timestamp |-> now,
     alert_triggered |-> TRUE, alert_category |-> None,
     verified |-> FALSE, error |-> None,
     primary_data |-> <<>>,
     time_window_data |-> <<>>, secondary_data |-> <<>>, calls |-> <<>>,
     verify_calls |-> <<>>]

\* The dict process_resort starts from.
initial_result(resort_name) ==
    [resort |-> resort_name, timestamp |-> now,
     alert_triggered |-> FALSE, alert_category |-> None,
     verified |-> FALSE, error |-> None,
     primary_data |-> <<>>,
     time_window_data |-> <<>>, secondary_data |-> <<>>, calls |-> <<>>,
     verify_calls |-> <<>>]

\* The result for a resort without coordinates, reported only after the
\* primary data has been requested.
missing_coordinates_after_fetch(result0) ==
    [result0 EXCEPT !.error = "Missing coordinates",
                    !.calls = <<"get_resort_snow_data">>]

\* The result process_resort returns at once when resort_data has no
\* "coordinates".
missing_coordinates(result0) ==
    [result0 EXCEPT !.error = "Missing coordinates"]

\* process_resort(resort_name, resort_data): the dict it returns and the
\* last_alerts map it leaves.  has_coordinates: "coordinates" in resort_data;
\* o, fb, w: the providers' answers to the primary request, to the primary
\* adapter's fallback request and to the verification request.
process_resort(resort_name, has_coordinates, o, fb, w) ==
    LET result0 == initial_result(resort_name)
    IN  IF ~has_coordinates
        THEN [result |-> missing_coordinates(result0),
              last_alerts |-> last_alerts]
        ELSE
        LET primary == get_resort_snow_data(o, fb)
            result1 == [result0 EXCEPT !.calls = <<"get_resort_snow_data">>]
        IN  IF primary.raised
            THEN [result |-> [result1 EXCEPT !.error = "Failed to retrieve weather data"],
                  last_alerts |-> last_alerts]
            ELSE
            LET time_window_data == calculate_time_window_data(primary.snow_data)
                result1a == [result1 EXCEPT !.primary_data = <<primary.snow_data>>]
            IN  IF time_window_data.raised
                THEN [result |-> [result1a EXCEPT !.error = "TypeError"],
                      last_alerts |-> last_alerts]
                ELSE
                LET current_24h == time_window_data.current_24h
                    result2 == [result1a EXCEPT !.time_window_data = <<time_window_data>>]
                    verification ==
                        IF needs_verification(current_24h)
                        THEN verify_with_secondary_source(current_24h, w)
                        ELSE [raised |-> FALSE, is_verified |-> FALSE,
                              secondary_data |-> <<>>, calls |-> <<>>]
                    result3 ==
                        IF needs_verification(current_24h)
                        THEN [result2 EXCEPT
                                !.verified = verification.is_verified,
                                !.secondary_data = verification.secondary_data,
                                !.verify_calls = verification.calls,
                                !.calls = @ \o <<"verify_with_secondary_source">>]
                        ELSE result2
                IN  IF verification.raised
                    THEN [result |-> [result3 EXCEPT !.verified = FALSE,
                                                     !.error = "Exception"],
                          last_alerts |-> last_alerts]
                    ELSE
                    LET decision == should_trigger_alert(
                                        resort_name, current_24h, verification.is_verified)
                    IN  IF decision.should_alert
                        THEN [result |-> [result3 EXCEPT
                                            !.alert_triggered = TRUE,
                                            !.alert_category = decision.category],
                              last_alerts |->
                                  update_last_alert_time(resort_name, decision.category)]
                        ELSE [result |-> result3, last_alerts |-> last_alerts]

\* The verification request is made only when process_resort verifies.
VerificationAnswers(o, fb) ==
    LET primary == get_resort_snow_data(o, fb)
        time_window_data == calculate_time_window_data(primary.snow_data)
    IN  IF ~primary.raised /\ ~time_window_data.raised
           /\ needs_verification(time_window_data.current_24h)
        THEN WeatherApiAnswers
        ELSE {NoRequest}

---------------------------------------------------------------------------
\* WeatherAPIClient (src/weather/client.py): response cache and retry loop.
\*
\* A params dict is the sequence of its <<name, value>> pairs in insertion
\* order.  json.dumps(params, sort_keys=True) lists the pairs by name, and
\* SortedNames is that order of the names used here.
SortedNames == <<"lat", "lon">>

DictKeys(params) == {params[i][1] : i \in DOMAIN params}

DictGet(params, name) ==
    LET i == CHOOSE j \in DOMAIN params : params[j][1] = name
    IN  params[i][2]

json_dumps_sort_keys(params) ==
    LET present == SelectSeq(SortedNames, LAMBDA name : name \in DictKeys(params))
    IN  [i \in DOMAIN present |-> <<present[i], DictGet(params, present[i])>>]

\* _get_cache_key over the pairs in insertion order.
get_cache_key_unsorted(endpoint, params) == <<endpoint, params>>

\* _get_cache_key hashing params_str alone.
get_cache_key_params_only(endpoint, params) == <<"", json_dumps_sort_keys(params)>>

\* _get_cache_key: the md5 hex digest of "endpoint:params_str"; the digest
\* is a function of that string and is taken as the string itself.
get_cache_key(endpoint, params) == <<endpoint, json_dumps_sort_keys(params)>>

\* _is_cache_valid comparing with <= : an entry is served at its expiry.
is_cache_valid_inclusive(cache_key) ==
    /\ cache_key \in DOMAIN cache
    /\ cache_key \in DOMAIN cache_expiry
    /\ clock <= cache_expiry[cache_key]

\* _is_cache_valid finding no entry.
is_cache_valid_never(cache_key) == cache_key \in {}

\* _is_cache_valid(cache_key)
is_cache_valid(cache_key) ==
    /\ cache_key \in DOMAIN cache
    /\ cache_key \in DOMAIN cache_expiry
    /\ clock < cache_expiry[cache_key]

Put(dict, key, value) ==
    [k \in DOMAIN dict \cup {key} |-> IF k = key THEN value ELSE dict[k]]

\* _cache_response keeping an entry the key already has.
cache_response_keep(cache_key, data, at) ==
    IF cache_key \in DOMAIN cache
    THEN [cache |-> cache, cache_expiry |-> cache_expiry]
    ELSE [cache |-> Put(cache, cache_key, data),
          cache_expiry |-> Put(cache_expiry, cache_key, at + CACHE_TTL)]

\* _cache_response(cache_key, response) called when datetime.now() is `at`:
\* the two dicts it leaves.
cache_response(cache_key, data, at) ==
    [cache |-> Put(cache, cache_key, data),
     cache_expiry |-> Put(cache_expiry, cache_key, at + CACHE_TTL)]

\* What one attempt (session.get, raise_for_status, response.json) meets:
\* a payload, or the exception it raises.  ConnectionError and HTTPError
\* are requests.exceptions.RequestException subclasses; ValueError is what
\* response.json() raises on a body that is not JSON under requests 2.25
\* and 2.26 (setup.py asks for requests>=2.25.0), where the JSON error is
\* not a RequestException.
Payloads == {"P1", "P2"}
RequestExceptions == {"ConnectionError", "HTTPError"}
OtherExceptions == {"ValueError"}

AttemptOutcomes ==
    [kind : {"ok"}, payload : Payloads]
      \cup [kind : RequestExceptions \cup OtherExceptions, payload : {None}]

\* The answers the network gives to the attempts one call makes: the
\* connection fails for every attempt but the last, the last attempt meets
\* any outcome, and the call makes no attempt after it.
Runs(max_retries) ==
    UNION {
      {[i \in 1..n |-> IF i < n
                       THEN [kind |-> "ConnectionError", payload |-> None]
                       ELSE outcome] :
         outcome \in {o \in AttemptOutcomes :
                        n < max_retries => o.kind \notin RequestExceptions}}
      : n \in (IF max_retries > 0 THEN 1..max_retries ELSE {0}) }

RECURSIVE SumSeq(_)
SumSeq(seq) == IF seq = <<>> THEN 0 ELSE Head(seq) + SumSeq(Tail(seq))

\* The back-off growing by retry_delay each time instead of doubling.
sleep_time_linear(retry_delay, retries) == retry_delay * retries

\* sleep_time = retry_delay * (2 ** (retries - 1))
sleep_time(retry_delay, retries) == retry_delay * 2^(retries - 1)

\* "last_exception = e" keeping the first exception caught.
caught_keep_first(last_exception, e) ==
    IF last_exception = None THEN e ELSE last_exception

\* last_exception = e
caught(last_exception, e) == e

\* The loop giving up after the first failed attempt.
loop_continues_once(retries, max_retries) == retries < 1 /\ retries < max_retries

\* while retries < max_retries
loop_continues(retries, max_retries) == retries < max_retries

\* The test before the sleep, always true: a delay after the last failure too.
sleeps_again_always(retries, max_retries) == TRUE

\* "if retries < max_retries" before the sleep, retries already counting
\* the attempt that has just failed.
sleeps_again(retries, max_retries) == retries < max_retries

\* The statement after the loop raising only an exception it has caught:
\* without one the function ends and the call returns None.
after_loop_silent(last_exception) ==
    IF last_exception # None
    THEN [kind |-> "raised", exc |-> last_exception]
    ELSE [kind |-> "returned", exc |-> None]

\* raise last_exception or Exception(f"Request to {url} failed for unknown
\* reason"): the last exception caught, or a plain Exception when the loop
\* has caught none.
after_loop(last_exception) ==
    [kind |-> "raised",
     exc |-> IF last_exception # None THEN last_exception ELSE "Exception"]

\* The retry loop of _make_request from the state (retries, last_exception),
\* script[k] being what attempt k meets; sleeps lists the back-off delays
\* slept so far.  It ends with the payload returned or the exception raised;
\* log lists what the attempts made have met.
RECURSIVE retry_loop(_, _, _, _, _, _)
retry_loop(script, max_retries, retry_delay, retries, last_exception, sleeps) ==
    IF ~loop_continues(retries, max_retries)
    THEN [kind |-> after_loop(last_exception).kind, payload |-> None,
          exc |-> after_loop(last_exception).exc,
          log |-> SubSeq(script, 1, retries), sleeps |-> sleeps]
    ELSE
    LET outcome == script[retries + 1]
    IN  IF outcome.kind = "ok"
        THEN [kind |-> "returned", payload |-> outcome.payload, exc |-> None,
              log |-> SubSeq(script, 1, retries + 1), sleeps |-> sleeps]
        ELSE IF outcome.kind \in RequestExceptions
        THEN LET retries1 == retries + 1
             IN  retry_loop(script, max_retries, retry_delay, retries1,
                            caught(last_exception, outcome.kind),
                            IF sleeps_again(retries1, max_retries)
                            THEN Append(sleeps, sleep_time(retry_delay, retries1))
                            ELSE sleeps)
        ELSE [kind |-> "raised", payload |-> None, exc |-> outcome.kind,
              log |-> SubSeq(script, 1, retries + 1), sleeps |-> sleeps]

\* _make_request with a sliding expiration: a hit renews the entry's expiry.
make_request_sliding(endpoint, params, max_retries, retry_delay, script) ==
    LET cache_key == get_cache_key(endpoint, params)
    IN  IF cache_enabled /\ is_cache_valid(cache_key)
        THEN [kind |-> "returned", payload |-> cache[cache_key], exc |-> None,
              log |-> <<>>, sleeps |-> <<>>, from_cache |-> TRUE,
              cache |-> cache,
              cache_expiry |-> Put(cache_expiry, cache_key, clock + CACHE_TTL),
              clock |-> clock]
        ELSE
        LET out == retry_loop(script, max_retries, retry_delay, 0, None, <<>>)
            ended == clock + SumSeq(out.sleeps)
            stored == IF out.kind = "returned" /\ cache_enabled
                      THEN cache_response(cache_key, out.payload, ended)
                      ELSE [cache |-> cache, cache_expiry |-> cache_expiry]
        IN  [kind |-> out.kind, payload |-> out.payload, exc |-> out.exc,
             log |-> out.log, sleeps |-> out.sleeps, from_cache |-> FALSE,
             cache |-> stored.cache, cache_expiry |-> stored.cache_expiry,
             clock |-> ended]

\* _make_request(endpoint, params, max_retries, retry_delay) against a
\* network answering as in script: how the call ends, the cache it leaves
\* and the time at which it ends (every sleep takes its time, nothing else
\* does).
make_request(endpoint, params, max_retries, retry_delay, script) ==
    LET cache_key == get_cache_key(endpoint, params)
    IN  IF cache_enabled /\ is_cache_valid(cache_key)
        THEN [kind |-> "returned", payload |-> cache[cache_key], exc |-> None,
              log |-> <<>>, sleeps |-> <<>>, from_cache |-> TRUE,
              cache |-> cache, cache_expiry |-> cache_expiry, clock |-> clock]
        ELSE
        LET out == retry_loop(script, max_retries, retry_delay, 0, None, <<>>)
            ended == clock + SumSeq(out.sleeps)
            stored == IF out.kind = "returned" /\ cache_enabled
                      THEN cache_response(cache_key, out.payload, ended)
                      ELSE [cache |-> cache, cache_expiry |-> cache_expiry]
        IN  [kind |-> out.kind, payload |-> out.payload, exc |-> out.exc,
             log |-> out.log, sleeps |-> out.sleeps, from_cache |-> FALSE,
             cache |-> stored.cache, cache_expiry |-> stored.cache_expiry,
             clock |-> ended]

\* The requests made of the client: two endpoints, and for one of them the
\* same coordinates in both insertion orders and another latitude.
Requests ==
    {[endpoint |-> "weather", params |-> <<<<"lat", 40>>, <<"lon", -111>>>>],
     [endpoint |-> "weather", params |-> <<<<"lon", -111>>, <<"lat", 40>>>>],
     [endpoint |-> "weather", params |-> <<<<"lat", 41>>, <<"lon", -111>>>>],
     [endpoint |-> "forecast", params |-> <<<<"lat", 40>>, <<"lon", -111>>>>]}

RetryDelays == {DEFAULT_RETRY_DELAY, 2 * DEFAULT_RETRY_DELAY}

\* The max_retries and retry_delay a call passes.  Every caller in the
\* program leaves them at their defaults; the signature takes any int, so a
\* client with cache is also called with max_retries 0 and -1, and a client
\* without cache with every pair from -1 up to MaxRetries.
RetryParameters ==
    IF cache_enabled
    THEN [max_retries : {-1, 0, DEFAULT_MAX_RETRIES},
          retry_delay : {DEFAULT_RETRY_DELAY}]
    ELSE [max_retries : -1..MaxRetries, retry_delay : RetryDelays]

---------------------------------------------------------------------------
Init ==
    /\ thresholds = [light |-> THRESHOLD_LIGHT * Scale,
                     moderate |-> THRESHOLD_MODERATE * Scale,
                     heavy |-> THRESHOLD_HEAVY * Scale]
    /\ now = 0
    /\ last_alerts = load_last_alerts
    /\ result = <<>>
    /\ alert_log = <<>>
    /\ passes = 0
    /\ batch = <<>>
    /\ invocations = 0
    /\ in_flight = NoCalls
    /\ cache_enabled = TRUE
    /\ cache = EmptyDict
    /\ cache_expiry = EmptyDict
    /\ clock = 0
    /\ response = <<>>
    /\ requests = 0
    /\ provider = NoPayloads
    /\ observation = <<>>

\* One call of process_resort; its result stays in `result` until the
\* caller has taken it.
ProcessResort ==
    /\ result = <<>>
    /\ passes < MaxPasses
    /\ \E resort_name \in Resorts, has_coordinates \in BOOLEAN,
          o \in OpenWeatherMapAnswers :
         \E fb \in FallbackAnswers(o) :
           \E w \in (IF has_coordinates THEN VerificationAnswers(o, fb) ELSE {NoRequest}) :
             LET out == process_resort(resort_name, has_coordinates, o, fb, w)
             IN  /\ result' = <<out.result>>
                 /\ last_alerts' = out.last_alerts
                 /\ alert_log' =
                        IF out.result.alert_triggered
                        THEN Append(alert_log, [resort |-> resort_name,
                                                category |-> out.result.alert_category,
                                                time |-> now])
                        ELSE alert_log
    /\ passes' = passes + 1
    /\ UNCHANGED <<thresholds, now>>
    /\ UNCHANGED <<batch, invocations>>
    /\ UNCHANGED in_flight
    /\ UNCHANGED client_vars
    /\ UNCHANGED adapter_vars

\* The caller takes the returned dict.
Return ==
    /\ result # <<>>
    /\ result' = <<>>
    /\ UNCHANGED <<thresholds, now, last_alerts, alert_log, passes>>
    /\ UNCHANGED <<batch, invocations>>
    /\ UNCHANGED in_flight
    /\ UNCHANGED client_vars
    /\ UNCHANGED adapter_vars

\* No run of lambda_handler is under way.
Idle == IF batch = <<>> THEN TRUE ELSE batch[1].returned

\* Time passes between calls, one check interval at a time.
Tick ==
    /\ result = <<>>
    /\ Idle
    /\ in_flight = NoCalls
    /\ now < MaxTicks * CHECK_FREQUENCY
    /\ now' = now + CHECK_FREQUENCY
    /\ UNCHANGED <<thresholds, last_alerts, result, alert_log, passes>>
    /\ UNCHANGED <<batch, invocations>>
    /\ UNCHANGED in_flight
    /\ UNCHANGED client_vars
    /\ UNCHANGED adapter_vars

Next == ProcessResort \/ Return \/ Tick

Spec == Init /\ [][Next]_vars

---------------------------------------------------------------------------
\* One WeatherAPIClient instance over its lifetime.
InitClient ==
    /\ thresholds = [light |-> THRESHOLD_LIGHT * Scale,
                     moderate |-> THRESHOLD_MODERATE * Scale,
                     heavy |-> THRESHOLD_HEAVY * Scale]
    /\ now = 0
    /\ last_alerts = load_last_alerts
    /\ result = <<>>
    /\ alert_log = <<>>
    /\ passes = 0
    /\ batch = <<>>
    /\ invocations = 0
    /\ in_flight = NoCalls
    /\ cache_enabled \in BOOLEAN
    /\ cache = EmptyDict
    /\ cache_expiry = EmptyDict
    /\ clock = 0
    /\ response = <<>>
    /\ requests = 0
    /\ provider = NoPayloads
    /\ observation = <<>>

\* The name/value pairs of a params dict.
PairsOf(params) == {params[i] : i \in DOMAIN params}

\* What the provider answers to one attempt of a request: its payload is
\* the payload of that endpoint for those parameters.
ServerAnswer(outcome, request) ==
    IF outcome.kind = "ok"
    THEN [outcome EXCEPT !.payload = [body |-> @,
                                      endpoint |-> request.endpoint,
                                      params |-> PairsOf(request.params)]]
    ELSE outcome

\* The entry the cache holds for a request: <<>> or <<[payload, expiry]>>.
EntryOf(request) ==
    LET cache_key == get_cache_key(request.endpoint, request.params)
    IN  IF cache_key \in DOMAIN cache /\ cache_key \in DOMAIN cache_expiry
        THEN <<[payload |-> cache[cache_key], expiry |-> cache_expiry[cache_key]]>>
        ELSE <<>>

\* One call of _make_request; how it ended stays in `response` until the
\* caller has taken it, with the call's arguments, the time it started
\* at, the cache entry it found and the answers the network had for it.
MakeRequest ==
    /\ response = <<>>
    /\ requests < MaxRequests
    /\ \E request \in Requests, retry \in RetryParameters :
         \E run \in Runs(retry.max_retries) :
           LET script == [i \in DOMAIN run |-> ServerAnswer(run[i], request)]
               max_retries == retry.max_retries
               retry_delay == retry.retry_delay
               out == make_request(request.endpoint, request.params,
                                   max_retries, retry_delay, script)
           IN  /\ response' = <<[kind |-> out.kind, payload |-> out.payload,
                                 exc |-> out.exc, log |-> out.log,
                                 sleeps |-> out.sleeps,
                                 from_cache |-> out.from_cache,
                                 endpoint |-> request.endpoint,
                                 params |-> request.params,
                                 max_retries |-> max_retries,
                                 retry_delay |-> retry_delay,
                                 network |-> script,
                                 started |-> clock,
                                 entry_before |-> EntryOf(request)]>>
               /\ cache' = out.cache
               /\ cache_expiry' = out.cache_expiry
               /\ clock' = out.clock
    /\ requests' = requests + 1
    /\ UNCHANGED cache_enabled
    /\ UNCHANGED processor_vars
    /\ UNCHANGED adapter_vars

\* The caller takes the payload or the exception.
TakeResponse ==
    /\ response # <<>>
    /\ response' = <<>>
    /\ UNCHANGED <<cache_enabled, cache, cache_expiry, clock, requests>>
    /\ UNCHANGED processor_vars
    /\ UNCHANGED adapter_vars

\* Time passes between calls, up to the last second before an entry of the
\* cache expires or up to its expiry.
ClientTick ==
    /\ response = <<>>
    /\ \E cache_key \in DOMAIN cache_expiry :
         \E t \in {cache_expiry[cache_key] - 1, cache_expiry[cache_key]} :
           /\ t > clock
           /\ clock' = t
    /\ UNCHANGED <<cache_enabled, cache, cache_expiry, response, requests>>
    /\ UNCHANGED processor_vars
    /\ UNCHANGED adapter_vars

NextClient == MakeRequest \/ TakeResponse \/ ClientTick

SpecClient == InitClient /\ [][NextClient]_vars

---------------------------------------------------------------------------
\* The two adapters' get_snow_data on every payload of the providers.
InitAdapter ==
    /\ thresholds = [light |-> THRESHOLD_LIGHT * Scale,
                     moderate |-> THRESHOLD_MODERATE * Scale,
                     heavy |-> THRESHOLD_HEAVY * Scale]
    /\ now = 0
    /\ last_alerts = load_last_alerts
    /\ result = <<>>
    /\ alert_log = <<>>
    /\ passes = 0
    /\ batch = <<>>
    /\ invocations = 0
    /\ in_flight = NoCalls
    /\ cache_enabled = TRUE
    /\ cache = EmptyDict
    /\ cache_expiry = EmptyDict
    /\ clock = 0
    /\ response = <<>>
    /\ requests = 0
    /\ provider \in ProviderPayloads
    /\ observation = <<>>

\* OpenWeatherMapClient.get_snow_data(lat, lon)
PrimaryGetSnowData ==
    /\ observation = <<>>
    /\ observation' = <<[adapter |-> "OpenWeatherMap", data |-> get_snow_data(provider)]>>
    /\ UNCHANGED provider
    /\ UNCHANGED processor_vars
    /\ UNCHANGED client_vars

\* WeatherApiClient.get_snow_data(lat, lon)
SecondaryGetSnowData ==
    /\ observation = <<>>
    /\ observation' =
          <<[adapter |-> "WeatherAPI.com",
             data |-> WeatherApi_get_snow_data(WeatherApiAnswerOf(provider.secondary))]>>
    /\ UNCHANGED provider
    /\ UNCHANGED processor_vars
    /\ UNCHANGED client_vars

NextAdapter == PrimaryGetSnowData \/ SecondaryGetSnowData

SpecAdapter == InitAdapter /\ [][NextAdapter]_vars

---------------------------------------------------------------------------
\* lambda_handler (src/lambda_function.py): one scheduled run builds a new
\* SnowfallProcessor over the enabled resorts, processes them in the order
\* of the dict and then delivers the triggered alerts.

\* RESORTS in the order of its keys.
ResortsConfigured == <<"Alta", "Snowbird">>

\* Values of ENABLED_RESORTS: <<>> when the variable is unset, otherwise
\* the names it lists.
EnabledLists ==
    {<<>>, <<"Snowbird", "Alta">>, <<"Alta", "Alta">>, <<"Unknown">>}

InSeq(seq, x) == \E i \in DOMAIN seq : seq[i] = x

\* The keys of the dict get_enabled_resorts builds, in insertion order.
RECURSIVE enabled_keys(_, _)
enabled_keys(names, enabled) ==
    IF names = <<>>
    THEN enabled
    ELSE IF InSeq(ResortsConfigured, Head(names)) /\ ~InSeq(enabled, Head(names))
    THEN enabled_keys(Tail(names), Append(enabled, Head(names)))
    ELSE enabled_keys(Tail(names), enabled)

get_enabled_resorts(ENABLED_RESORTS) ==
    IF ENABLED_RESORTS = <<>>
    THEN ResortsConfigured
    ELSE enabled_keys(ENABLED_RESORTS, <<>>)

\* The test counting every result as an error.
error_is_set_always(resort_result) == TRUE

\* Truth value of resort_result.get("error").
error_is_set(resort_result) ==
    IF resort_result.error = None THEN FALSE ELSE resort_result.error # ""

\* One turn of the loop of process_all_resorts counting every result as an
\* alert.
record_result_count_all(results, resort_name, resort_result) ==
    [results EXCEPT !.results = Put(@, resort_name, resort_result),
                    !.resorts_processed = @ + 1,
                    !.alerts_triggered = @ + 1,
                    !.errors = IF error_is_set(resort_result) THEN @ + 1 ELSE @]

\* One turn of the loop of process_all_resorts: the result is stored under
\* the resort's name and counted.
record_result(results, resort_name, resort_result) ==
    [results EXCEPT !.results = Put(@, resort_name, resort_result),
                    !.resorts_processed = @ + 1,
                    !.alerts_triggered =
                        IF resort_result.alert_triggered THEN @ + 1 ELSE @,
                    !.errors = IF error_is_set(resort_result) THEN @ + 1 ELSE @]

\* send_snow_alert as lambda_handler calls it, with four positional
\* arguments: they bind alert_data, resort_name, snow_data and category, so
\* snow_data is the category string.  Without a webhook URL the function
\* returns False; with one it reaches snow_data.get and raises.
send_snow_alert(webhook) ==
    IF ~webhook
    THEN [raised |-> FALSE, success |-> FALSE]
    ELSE [raised |-> TRUE, success |-> FALSE]

\* The delivery loop of lambda_handler over the results from position i:
\* the calls of send_snow_alert it makes and whether one of them raised.
RECURSIVE deliver(_, _, _, _, _)
deliver(keys, results, webhook, i, calls) ==
    IF i > Len(keys)
    THEN [raised |-> FALSE, calls |-> calls, alerts_sent |-> <<>>]
    ELSE IF ~results[keys[i]].alert_triggered
    THEN deliver(keys, results, webhook, i + 1, calls)
    ELSE LET success == send_snow_alert(webhook)
             made == Append(calls, keys[i])
         IN  IF success.raised
             THEN [raised |-> TRUE, calls |-> made, alerts_sent |-> <<>>]
             ELSE deliver(keys, results, webhook, i + 1, made)

\* What the providers answer during one process_resort of a run.
BatchScenarios ==
    {s \in {[has_coordinates |-> FALSE,
             o |-> [kind |-> "ok", current |-> 0, forecast |-> 0],
             fb |-> NoRequest, w |-> NoRequest],
            [has_coordinates |-> TRUE,
             o |-> [kind |-> "fail", current |-> 0, forecast |-> 0],
             fb |-> [kind |-> "request_error", mm |-> 0], w |-> NoRequest],
            [has_coordinates |-> TRUE,
             o |-> [kind |-> "snow_dict", current |-> 0, forecast |-> 0],
             fb |-> NoRequest, w |-> NoRequest],
            [has_coordinates |-> TRUE,
             o |-> [kind |-> "ok", current |-> 120, forecast |-> 0],
             fb |-> NoRequest, w |-> [kind |-> "ok", mm |-> 305]],
            [has_coordinates |-> TRUE,
             o |-> [kind |-> "ok", current |-> 120, forecast |-> 0],
             fb |-> NoRequest, w |-> [kind |-> "request_error", mm |-> 0]]} :
        /\ s.fb \in FallbackAnswers(s.o)
        /\ s.w \in (IF s.has_coordinates
                    THEN VerificationAnswers(s.o, s.fb)
                    ELSE {NoRequest})}

\* lambda_handler up to the first resort: get_enabled_resorts and the
\* constructor of SnowfallProcessor, which loads the last-alert map, then
\* the results dict of process_all_resorts before its loop.
LambdaStart ==
    /\ Idle
    /\ result = <<>>
    /\ invocations < MaxInvocations
    /\ \E ENABLED_RESORTS \in EnabledLists :
         batch' = <<[resorts |-> get_enabled_resorts(ENABLED_RESORTS),
                     timestamp |-> now,
                     resorts_processed |-> 0,
                     alerts_triggered |-> 0,
                     errors |-> 0,
                     results |-> EmptyDict,
                     statusCode |-> 0,
                     deliveries |-> <<>>,
                     alerts_sent |-> <<>>,
                     returned |-> FALSE]>>
    /\ last_alerts' = load_last_alerts
    /\ invocations' = invocations + 1
    /\ UNCHANGED <<thresholds, now, result, alert_log, passes>>
    /\ UNCHANGED in_flight
    /\ UNCHANGED client_vars
    /\ UNCHANGED adapter_vars

\* One turn of the loop of process_all_resorts.
ProcessNextResort ==
    /\ batch # <<>>
    /\ ~batch[1].returned
    /\ batch[1].statusCode = 0
    /\ batch[1].resorts_processed < Len(batch[1].resorts)
    /\ LET resort_name == batch[1].resorts[batch[1].resorts_processed + 1]
       IN  \E s \in BatchScenarios :
             LET out == process_resort(resort_name, s.has_coordinates,
                                       s.o, s.fb, s.w)
             IN  /\ batch' = <<record_result(batch[1], resort_name, out.result)>>
                 /\ last_alerts' = out.last_alerts
                 /\ alert_log' =
                        IF out.result.alert_triggered
                        THEN Append(alert_log, [resort |-> resort_name,
                                                category |-> out.result.alert_category,
                                                time |-> now])
                        ELSE alert_log
    /\ UNCHANGED <<thresholds, now, result, passes, invocations>>
    /\ UNCHANGED in_flight
    /\ UNCHANGED client_vars
    /\ UNCHANGED adapter_vars

\* lambda_handler after process_all_resorts: the delivery loop and the
\* response.
LambdaFinish ==
    /\ batch # <<>>
    /\ ~batch[1].returned
    /\ batch[1].resorts_processed = Len(batch[1].resorts)
    /\ \E webhook \in BOOLEAN :
         LET sent == deliver(batch[1].resorts, batch[1].results, webhook, 1, <<>>)
         IN  batch' = <<[batch[1] EXCEPT
                            !.statusCode = IF sent.raised THEN 500 ELSE 200,
                            !.deliveries = sent.calls,
                            !.alerts_sent = sent.alerts_sent,
                            !.returned = TRUE]>>
    /\ UNCHANGED <<thresholds, now, last_alerts, result, alert_log, passes,
                   invocations>>
    /\ UNCHANGED in_flight
    /\ UNCHANGED client_vars
    /\ UNCHANGED adapter_vars

NextLambda == LambdaStart \/ ProcessNextResort \/ LambdaFinish \/ Tick

SpecLambda == Init /\ [][NextLambda]_vars

---------------------------------------------------------------------------
\* The processor under any setting of THRESHOLD_LIGHT, THRESHOLD_MODERATE
\* and THRESHOLD_HEAVY: settings.py reads the three from the environment and
\* nothing compares them with one another.
ThresholdConfigurations ==
    {[light |-> THRESHOLD_LIGHT * Scale,
      moderate |-> THRESHOLD_MODERATE * Scale,
      heavy |-> THRESHOLD_HEAVY * Scale],
     [light |-> THRESHOLD_MODERATE * Scale,
      moderate |-> THRESHOLD_LIGHT * Scale,
      heavy |-> THRESHOLD_HEAVY * Scale],
     [light |-> THRESHOLD_LIGHT * Scale,
      moderate |-> THRESHOLD_HEAVY * Scale,
      heavy |-> THRESHOLD_MODERATE * Scale]}

InitThresholds ==
    /\ thresholds \in ThresholdConfigurations
    /\ now = 0
    /\ last_alerts = load_last_alerts
    /\ result = <<>>
    /\ alert_log = <<>>
    /\ passes = 0
    /\ batch = <<>>
    /\ invocations = 0
    /\ in_flight = NoCalls
    /\ cache_enabled = TRUE
    /\ cache = EmptyDict
    /\ cache_expiry = EmptyDict
    /\ clock = 0
    /\ response = <<>>
    /\ requests = 0
    /\ provider = NoPayloads
    /\ observation = <<>>

SpecThresholds == InitThresholds /\ [][Next]_vars

---------------------------------------------------------------------------
\* process_resort called from two threads on one SnowfallProcessor.  The
\* class holds no lock, so the threads interleave between the statements
\* that read or write self.last_alerts:
\*   "check"   the call up to the return of should_trigger_alert, whose
\*             is_in_cooldown reads the map (processor.py 216-258)
\*   "test"    update_last_alert_time: resort_name not in self.last_alerts
\*   "create"  self.last_alerts[resort_name] = {}
\*   "store"   self.last_alerts[resort_name][category] = datetime.now()
\*   "done"    the call is about to return its result
RaceCheck(t) ==
    /\ in_flight[t] = <<>>
    /\ passes < MaxPasses
    /\ \E resort_name \in Resorts, s \in BatchScenarios :
         LET out == process_resort(resort_name, s.has_coordinates,
                                   s.o, s.fb, s.w)
         IN  /\ in_flight' =
                   [in_flight EXCEPT ![t] =
                       <<[resort |-> resort_name,
                          pc |-> IF out.result.alert_triggered
                                 THEN "test" ELSE "done",
                          missing |-> FALSE,
                          result |-> out.result]>>]
             /\ alert_log' =
                    IF out.result.alert_triggered
                    THEN Append(alert_log, [resort |-> resort_name,
                                            category |-> out.result.alert_category,
                                            time |-> now])
                    ELSE alert_log
    /\ passes' = passes + 1
    /\ UNCHANGED <<thresholds, now, last_alerts, result, batch, invocations>>
    /\ UNCHANGED client_vars
    /\ UNCHANGED adapter_vars

RaceTest(t) ==
    /\ in_flight[t] # <<>>
    /\ in_flight[t][1].pc = "test"
    /\ in_flight' =
          [in_flight EXCEPT ![t] =
              <<[in_flight[t][1] EXCEPT
                    !.missing = in_flight[t][1].resort \notin DOMAIN last_alerts,
                    !.pc = IF in_flight[t][1].resort \notin DOMAIN last_alerts
                           THEN "create" ELSE "store"]>>]
    /\ UNCHANGED <<thresholds, now, last_alerts, result, alert_log, passes,
                   batch, invocations>>
    /\ UNCHANGED client_vars
    /\ UNCHANGED adapter_vars

RaceCreate(t) ==
    /\ in_flight[t] # <<>>
    /\ in_flight[t][1].pc = "create"
    /\ last_alerts' = (in_flight[t][1].resort :> EmptyDict) @@ last_alerts
    /\ in_flight' =
          [in_flight EXCEPT ![t] = <<[in_flight[t][1] EXCEPT !.pc = "store"]>>]
    /\ UNCHANGED <<thresholds, now, result, alert_log, passes, batch,
                   invocations>>
    /\ UNCHANGED client_vars
    /\ UNCHANGED adapter_vars

RaceStore(t) ==
    /\ in_flight[t] # <<>>
    /\ in_flight[t][1].pc = "store"
    /\ last_alerts' = update_last_alert_time(in_flight[t][1].resort,
                                             in_flight[t][1].result.alert_category)
    /\ in_flight' =
          [in_flight EXCEPT ![t] = <<[in_flight[t][1] EXCEPT !.pc = "done"]>>]
    /\ UNCHANGED <<thresholds, now, result, alert_log, passes, batch,
                   invocations>>
    /\ UNCHANGED client_vars
    /\ UNCHANGED adapter_vars

\* The calls under way return once each has reached its end.
RaceReturn ==
    /\ in_flight # NoCalls
    /\ \A t \in Threads : in_flight[t] # <<>> => in_flight[t][1].pc = "done"
    /\ in_flight' = NoCalls
    /\ UNCHANGED <<thresholds, now, last_alerts, result, alert_log, passes,
                   batch, invocations>>
    /\ UNCHANGED client_vars
    /\ UNCHANGED adapter_vars

NextRace ==
    \/ \E t \in Threads : RaceCheck(t)
    \/ \E t \in Threads : RaceTest(t)
    \/ \E t \in Threads : RaceCreate(t)
    \/ \E t \in Threads : RaceStore(t)
    \/ RaceReturn
    \/ Tick

SpecRace == Init /\ [][NextRace]_vars

---------------------------------------------------------------------------
\* Two passes side by side.  From one state of the processor (a last-alert
\* map and a time), process_resort is run twice for the same resort on
\* primary answers that have the same current amount and different forecast
\* amounts and on the same answer to the verification request; in_flight
\* holds what the two runs return and the map each of them leaves.
LastAlertMaps ==
    {EmptyDict}
      \cup {(resort_name :> (category :> 0)) :
               resort_name \in Resorts, category \in Categories}
      \cup {(resort_name :> [category \in Categories |-> 0]) :
               resort_name \in Resorts}

InitPair ==
    /\ thresholds = [light |-> THRESHOLD_LIGHT * Scale,
                     moderate |-> THRESHOLD_MODERATE * Scale,
                     heavy |-> THRESHOLD_HEAVY * Scale]
    /\ now \in {k * CHECK_FREQUENCY : k \in 0..MaxTicks}
    /\ last_alerts \in LastAlertMaps
    /\ result = <<>>
    /\ alert_log = <<>>
    /\ passes = 0
    /\ batch = <<>>
    /\ invocations = 0
    /\ in_flight = NoCalls
    /\ cache_enabled = TRUE
    /\ cache = EmptyDict
    /\ cache_expiry = EmptyDict
    /\ clock = 0
    /\ response = <<>>
    /\ requests = 0
    /\ provider = NoPayloads
    /\ observation = <<>>

PairOfPasses ==
    /\ in_flight = NoCalls
    /\ \E resort_name \in Resorts :
         \E o1, o2 \in {o \in OpenWeatherMapAnswers : o.kind = "ok"} :
           /\ o1.current = o2.current
           /\ o1.forecast < o2.forecast
           /\ \E w \in VerificationAnswers(o1, NoRequest) :
                LET out1 == process_resort(resort_name, TRUE, o1, NoRequest, w)
                    out2 == process_resort(resort_name, TRUE, o2, NoRequest, w)
                IN  in_flight' =
                       [t \in Threads |->
                           IF t = "T1"
                           THEN <<[resort |-> resort_name, pc |-> "done",
                                   result |-> out1.result,
                                   after |-> out1.last_alerts]>>
                           ELSE <<[resort |-> resort_name, pc |-> "done",
                                   result |-> out2.result,
                                   after |-> out2.last_alerts]>>]
    /\ UNCHANGED <<thresholds, now, last_alerts, result, alert_log, passes,
                   batch, invocations>>
    /\ UNCHANGED client_vars
    /\ UNCHANGED adapter_vars

\* A pass on the fallback path.  From one state of the processor,
\* process_resort is run for a resort whose primary provider fails; the
\* secondary provider answers the fallback request with fb and the
\* verification request, when there is one, with w.  in_flight holds the two
\* answers with what the run returns.
FallbackPass ==
    /\ in_flight = NoCalls
    /\ \E resort_name \in Resorts :
         \E o \in {a \in OpenWeatherMapAnswers : a.kind = "fail"} :
           \E fb \in FallbackAnswers(o) :
             \E w \in VerificationAnswers(o, fb) :
               LET out == process_resort(resort_name, TRUE, o, fb, w)
               IN  in_flight' =
                      [t \in Threads |->
                          IF t = "T1"
                          THEN <<[resort |-> resort_name, pc |-> "done",
                                  fb |-> fb, w |-> w,
                                  result |-> out.result,
                                  after |-> out.last_alerts]>>
                          ELSE <<>>]
    /\ UNCHANGED <<thresholds, now, last_alerts, result, alert_log, passes,
                   batch, invocations>>
    /\ UNCHANGED client_vars
    /\ UNCHANGED adapter_vars

NextPair == PairOfPasses \/ FallbackPass \/ RaceReturn

SpecPair == InitPair /\ [][NextPair]_vars

---------------------------------------------------------------------------
\* Vocabulary of the properties.

\* Amounts the functions are tried on: around every threshold, one
\* fixed-point unit either side of it, and whatever the pass that has just
\* returned measured.
GridTenths == {0, 10, 19, 20, 21, 40, 59, 60, 61, 100, 119, 120, 121, 130}

FixedGrid ==
    {Inches10(t) : t \in GridTenths}
        \cup {THRESHOLD_LIGHT * Scale - 1, THRESHOLD_LIGHT * Scale + 1,
              THRESHOLD_MODERATE * Scale - 1, THRESHOLD_MODERATE * Scale + 1,
              THRESHOLD_HEAVY * Scale - 1, THRESHOLD_HEAVY * Scale + 1}

Measured ==
    IF result # <<>> /\ result[1].time_window_data # <<>>
    THEN {result[1].time_window_data[1].current_24h}
    ELSE {}

Grid == FixedGrid \cup Measured

Rank(category) ==
    CASE category = "none" -> 0
      [] category = "light" -> 1
      [] category = "moderate" -> 2
      [] category = "heavy" -> 3

\* The pass that has just returned measured a current-window amount.
Measuring == result # <<>> /\ result[1].time_window_data # <<>>
Current24h == result[1].time_window_data[1].current_24h

Stored(resort_name, category) ==
    /\ resort_name \in DOMAIN last_alerts
    /\ category \in DOMAIN last_alerts[resort_name]

No == [should_alert |-> FALSE, category |-> None]

Count(seq, x) == Cardinality({i \in DOMAIN seq : seq[i] = x})

---------------------------------------------------------------------------
\* C1: determine_alert_category(a) is "heavy" iff a >= THRESHOLD_HEAVY,
\* otherwise "moderate" iff a >= THRESHOLD_MODERATE, otherwise "light" iff
\* a >= THRESHOLD_LIGHT, otherwise "none"; an amount equal to a threshold
\* gets the higher category; a triggered alert carries that category.
C1_Classification ==
    /\ \A a \in Grid :
         LET c == determine_alert_category(a)
         IN  /\ (c = "heavy") <=> (a >= THRESHOLD_HEAVY * Scale)
             /\ (c = "moderate") <=>
                    (a < THRESHOLD_HEAVY * Scale /\ a >= THRESHOLD_MODERATE * Scale)
             /\ (c = "light") <=>
                    (a < THRESHOLD_MODERATE * Scale /\ a >= THRESHOLD_LIGHT * Scale)
             /\ (c = "none") <=> (a < THRESHOLD_LIGHT * Scale)
    /\ determine_alert_category(THRESHOLD_HEAVY * Scale) = "heavy"
    /\ determine_alert_category(THRESHOLD_MODERATE * Scale) = "moderate"
    /\ determine_alert_category(THRESHOLD_LIGHT * Scale) = "light"
    /\ (Measuring /\ result[1].alert_triggered) =>
         LET a == Current24h
         IN  result[1].alert_category =
                IF a >= THRESHOLD_HEAVY * Scale THEN "heavy"
                ELSE IF a >= THRESHOLD_MODERATE * Scale THEN "moderate"
                ELSE "light"

\* A pass that measured exactly the moderate threshold alerted "moderate".
C1_Witness ==
    /\ Measuring
    /\ Current24h = THRESHOLD_MODERATE * Scale
    /\ result[1].alert_triggered
    /\ result[1].alert_category = "moderate"

\* C2: the classification is monotonic non-decreasing in the amount, in the
\* order none < light < moderate < heavy (every amount a pass measures
\* against every amount of the grid, both ways round), and the amount just
\* below THRESHOLD_HEAVY is not "heavy".
C2_Monotonic ==
    /\ \A a1 \in Measured : \A a2 \in Grid :
         /\ a1 <= a2 => Rank(determine_alert_category(a1))
                           <= Rank(determine_alert_category(a2))
         /\ a2 <= a1 => Rank(determine_alert_category(a2))
                           <= Rank(determine_alert_category(a1))
    /\ determine_alert_category(THRESHOLD_HEAVY * Scale - 1) # "heavy"
    /\ determine_alert_category(THRESHOLD_HEAVY * Scale) = "heavy"

\* A pass that measured 11.9 inches alerted, and not as "heavy".
C2_Witness ==
    /\ Measuring
    /\ Current24h = Inches10(119)
    /\ result[1].alert_triggered
    /\ result[1].alert_category = "moderate"

\* C3: with a current-window amount >= THRESHOLD_LIGHT and is_verified false,
\* should_trigger_alert returns (False, None) for every resort, category and
\* cooldown state, and process_resort reports no alert.
C3_VerificationGate ==
    /\ \A resort_name \in Resorts : \A a \in Grid :
         a >= THRESHOLD_LIGHT * Scale
            => should_trigger_alert(resort_name, a, FALSE) = No
    /\ (Measuring /\ Current24h >= THRESHOLD_LIGHT * Scale /\ ~result[1].verified)
         => /\ ~result[1].alert_triggered
            /\ result[1].alert_category = None

\* A pass measured heavy snow that the secondary source contradicted, outside
\* any cooldown, and did not alert.
C3_Witness ==
    /\ Measuring
    /\ Current24h >= THRESHOLD_HEAVY * Scale
    /\ ~result[1].verified
    /\ result[1].secondary_data # <<>>
    /\ ~is_in_cooldown(result[1].resort, "heavy")
    /\ ~result[1].alert_triggered

\* C4: for a (resort, category) pair with a stored last-alert time t and
\* now < t + ALERT_COOLDOWN_HOURS, should_trigger_alert returns (False, None)
\* for every verified amount of that category; a pair with no stored time is
\* not in cooldown.
C4_CooldownGate ==
    \A resort_name \in Resorts : \A category \in Categories :
        /\ (Stored(resort_name, category)
              /\ now < last_alerts[resort_name][category] + ALERT_COOLDOWN_HOURS)
             => \A a \in Grid :
                  determine_alert_category(a) = category
                     => should_trigger_alert(resort_name, a, TRUE) = No
        /\ ~Stored(resort_name, category) => ~is_in_cooldown(resort_name, category)

\* A verified pass above the threshold returned no alert because its pair was
\* in cooldown.
C4_Witness ==
    /\ Measuring
    /\ Current24h >= THRESHOLD_LIGHT * Scale
    /\ result[1].verified
    /\ ~result[1].alert_triggered
    /\ Stored(result[1].resort, determine_alert_category(Current24h))
    /\ now > last_alerts[result[1].resort][determine_alert_category(Current24h)]

\* C5: a (resort, category) pair is in cooldown exactly while the newest
\* alert process_resort triggered for it is less than ALERT_COOLDOWN_HOURS
\* old: true right after the alert, true until the cooldown has elapsed,
\* false from then on, and false for a pair that never alerted.
C5_CooldownWindow ==
    /\ \A resort_name \in Resorts : \A category \in Categories :
         is_in_cooldown(resort_name, category)
            <=> \E i \in DOMAIN alert_log :
                  /\ alert_log[i].resort = resort_name
                  /\ alert_log[i].category = category
                  /\ now < alert_log[i].time + ALERT_COOLDOWN_HOURS
    /\ (result # <<>> /\ result[1].alert_triggered)
         => is_in_cooldown(result[1].resort, result[1].alert_category)

\* The cooldown of an alerted pair has just elapsed and the pair is free.
C5_Witness ==
    \E i \in DOMAIN alert_log :
        /\ now = alert_log[i].time + ALERT_COOLDOWN_HOURS
        /\ ~is_in_cooldown(alert_log[i].resort, alert_log[i].category)

\* C6: two alerts one processor triggered for the same (resort, category)
\* are at least ALERT_COOLDOWN_HOURS apart; an immediate second pass with the
\* same input does not alert again.
C6_AlertSpacing ==
    \A i, j \in DOMAIN alert_log :
        (i < j /\ alert_log[i].resort = alert_log[j].resort
               /\ alert_log[i].category = alert_log[j].category)
           => alert_log[j].time - alert_log[i].time >= ALERT_COOLDOWN_HOURS

\* The same pair alerted twice.
C6_Witness ==
    \E i, j \in DOMAIN alert_log :
        /\ i < j
        /\ alert_log[i].resort = alert_log[j].resort
        /\ alert_log[i].category = alert_log[j].category

\* The stored last-alert time of a pair, -1 when there is none.
LastAlert(map, resort_name, category) ==
    IF resort_name \in DOMAIN map /\ category \in DOMAIN map[resort_name]
    THEN map[resort_name][category]
    ELSE -1

\* C7: a pass that triggers an alert for (R, C) sets the stored time of
\* (R, C) to the current time and leaves the stored time of every other
\* category of R and of every other resort as it was.
C7_UpdateFrame ==
    [][(result = <<>> /\ result' # <<>> /\ result'[1].alert_triggered)
         => /\ LastAlert(last_alerts', result'[1].resort, result'[1].alert_category) = now
            /\ \A resort_name \in Resorts : \A category \in Categories :
                 <<resort_name, category>>
                        # <<result'[1].resort, result'[1].alert_category>>
                    => LastAlert(last_alerts', resort_name, category)
                         = LastAlert(last_alerts, resort_name, category)]_vars

\* A "moderate" alert fired while the same resort's "light" alert of an
\* earlier pass was still in cooldown, and the "light" time is the old one.
C7_Witness ==
    /\ result # <<>>
    /\ result[1].alert_triggered
    /\ result[1].alert_category = "moderate"
    /\ LastAlert(last_alerts, result[1].resort, "light") >= 0
    /\ LastAlert(last_alerts, result[1].resort, "light") < now
    /\ is_in_cooldown(result[1].resort, "light")
    /\ ~Stored(result[1].resort, "heavy")

WithinTolerance(primary, mm) ==
    Abs(primary * CM_PER_INCH_X100 - mm * 10 * Scale)
        <= VERIFICATION_THRESHOLD * Scale * CM_PER_INCH_X100

\* C9: verify_with_secondary_source reports agreement if and only if the
\* secondary fetch succeeded and the absolute difference between the primary
\* amount and the secondary amount in inches is <= VERIFICATION_THRESHOLD:
\* for the amount a pass measured against every answer of the secondary
\* provider, and in what the pass reported.
C9_Agreement ==
    /\ \A a \in Measured : \A w \in WeatherApiAnswers :
         verify_with_secondary_source(a, w).is_verified
            <=> (w.kind = "ok" /\ WithinTolerance(a, w.mm))
    /\ Measuring =>
         (result[1].verified
            <=> /\ result[1].secondary_data # <<>>
                /\ WithinTolerance(Current24h, result[1].secondary_data[1].snow_mm))

\* A pass was verified by a secondary amount exactly VERIFICATION_THRESHOLD
\* away from the primary one.
C9_Witness ==
    /\ Measuring
    /\ result[1].verified
    /\ result[1].secondary_data # <<>>
    /\ Abs(Current24h - result[1].secondary_data[1].snow_inches)
          = VERIFICATION_THRESHOLD * Scale

C11_PacingDelay ==
    /\ \A a \in Measured : \A w \in WeatherApiAnswers :
         LET calls == verify_with_secondary_source(a, w).calls
         IN  /\ Count(calls, "sleep") = 1
             /\ Count(calls, "weatherapi") = 1
             /\ \A i, j \in DOMAIN calls :
                    (calls[i] = "sleep" /\ calls[j] = "weatherapi") => i < j
    /\ (result # <<>> /\ Count(result[1].calls, "verify_with_secondary_source") > 0)
         => result[1].verify_calls = <<"sleep", "weatherapi">>

\* A pass whose verification request failed after its pause.
C11_Witness ==
    /\ Measuring
    /\ result[1].verify_calls = <<"sleep", "weatherapi">>
    /\ result[1].secondary_data = <<>>

---------------------------------------------------------------------------
\* Vocabulary of the client properties: the call that has just ended.
Responded == response # <<>>
Call == response[1]
CallKey == get_cache_key(Call.endpoint, Call.params)
FoundFresh == Call.entry_before # <<>> /\ Call.started < Call.entry_before[1].expiry
FoundStale == Call.entry_before # <<>> /\ Call.started >= Call.entry_before[1].expiry
Failed(outcome) == outcome.kind # "ok"
NetworkDown == Call.network # <<>> /\ \A i \in DOMAIN Call.network : Failed(Call.network[i])

\* C12: with caching enabled, a call whose key has an entry that has not
\* expired returns that entry's payload and makes no network attempt (and
\* sleeps no delay), whatever the network would have answered.
C12_CacheHit ==
    (Responded /\ cache_enabled /\ FoundFresh)
      => /\ Call.kind = "returned"
         /\ Call.payload = Call.entry_before[1].payload
         /\ Call.log = <<>>
         /\ Call.sleeps = <<>>

\* A call served from the cache while every attempt would have failed.
C12_Witness ==
    /\ Responded /\ cache_enabled /\ FoundFresh
    /\ NetworkDown
    /\ Call.kind = "returned"
    /\ Call.log = <<>>

ParamPairs == {<<"lat", 40>>, <<"lat", 41>>, <<"lon", -111>>}

ParamDicts ==
    {params \in UNION {[1..n -> ParamPairs] : n \in 0..Len(SortedNames)} :
       \A i, j \in DOMAIN params : params[i][1] = params[j][1] => i = j}

\* Two dicts with the same name/value pairs get the same key for the same
\* endpoint.
SamePairsSameKey ==
    \A p, q \in ParamDicts :
       PairsOf(p) = PairsOf(q)
         => \A endpoint \in {"weather", "forecast"} :
              get_cache_key(endpoint, p) = get_cache_key(endpoint, q)

\* C14: the cache key does not depend on the insertion order of the
\* parameters: two dicts with the same name/value pairs get the same key
\* for the same endpoint, and so does every reordering of the parameters
\* of the call that has just ended.
C14_KeyOrderIndependent ==
    /\ SamePairsSameKey
    /\ Responded
         => \A q \in ParamDicts :
              PairsOf(q) = PairsOf(Call.params)
                => get_cache_key(Call.endpoint, q) = CallKey

\* A call whose parameters were inserted in another order than the sorted
\* one, served from the cache.
C14_Witness ==
    /\ Responded
    /\ Call.params # json_dumps_sort_keys(Call.params)
    /\ Call.from_cache
    /\ CallKey \in DOMAIN cache

\* C15: after a successful network fetch with caching enabled the cache
\* holds the returned payload under the call's key, expiring CACHE_TTL
\* after the time the fetch ended, whatever entry the key had before; the
\* two dicts keep the same keys.
C15_CacheStore ==
    /\ (Responded /\ cache_enabled /\ Call.kind = "returned" /\ ~Call.from_cache)
         => /\ CallKey \in DOMAIN cache /\ CallKey \in DOMAIN cache_expiry
            /\ cache[CallKey] = Call.payload
            /\ clock = Call.started + SumSeq(Call.sleeps)
            /\ cache_expiry[CallKey] = clock + CACHE_TTL
    /\ DOMAIN cache = DOMAIN cache_expiry

\* A fetch, after one retry, that replaced an entry holding another payload.
C15_Witness ==
    /\ Responded /\ cache_enabled
    /\ Call.kind = "returned" /\ ~Call.from_cache
    /\ Call.sleeps # <<>>
    /\ Call.entry_before # <<>>
    /\ Call.entry_before[1].payload # Call.payload
    /\ cache[CallKey] = Call.payload

\* A call that went to the network, and what its attempts met.
Cold == Responded /\ ~Call.from_cache
Attempts == Len(Call.log)
MetRequestException(k) == Call.log[k].kind \in RequestExceptions
ReturnsAttempt(k) ==
    /\ k = Attempts
    /\ Call.kind = "returned"
    /\ Call.payload = Call.log[k].payload

\* C16 as stated: a cold call goes on until the first success or until
\* max_retries attempts have failed; when every attempt fails it has made
\* exactly max_retries attempts and raises; when an attempt succeeds it
\* returns that payload and makes no further attempt.
C16_Original ==
    Cold =>
      /\ Attempts <= Call.max_retries
      /\ (\A k \in 1..Attempts : Failed(Call.log[k]))
           => (Attempts = Call.max_retries /\ Call.kind = "raised")
      /\ \A k \in 1..Attempts : Call.log[k].kind = "ok" => ReturnsAttempt(k)

\* The attempts a call may make at most: max_retries, or none when
\* max_retries is below zero.
MostAttempts == IF Call.max_retries > 0 THEN Call.max_retries ELSE 0

\* C16, amended: a cold call goes on until the first success, until an
\* attempt raises something that is not a RequestException, or until
\* max_retries attempts have met a RequestException.  When every attempt
\* meets a RequestException it has made exactly max_retries attempts and
\* raises; when an attempt succeeds it returns that payload and makes no
\* further attempt; an attempt raising any other exception is the last and
\* the call raises that exception.
C16_Retry ==
    Cold =>
      /\ Attempts <= MostAttempts
      /\ \A k \in 1..(Attempts - 1) : MetRequestException(k)
      /\ (\A k \in 1..Attempts : MetRequestException(k))
           => (Attempts = MostAttempts /\ Call.kind = "raised")
      /\ \A k \in 1..Attempts : Call.log[k].kind = "ok" => ReturnsAttempt(k)
      /\ \A k \in 1..Attempts :
           Call.log[k].kind \in OtherExceptions
             => (k = Attempts /\ Call.kind = "raised" /\ Call.exc = Call.log[k].kind)

\* A call with the default parameters whose three attempts all met a
\* RequestException: it raised after the third.
C16_Witness ==
    /\ Cold
    /\ Call.max_retries = DEFAULT_MAX_RETRIES
    /\ Attempts = DEFAULT_MAX_RETRIES
    /\ \A k \in 1..Attempts : MetRequestException(k)
    /\ Call.kind = "raised"

\* A call whose second attempt succeeded: two attempts in all.
C16_WitnessSuccess ==
    /\ Cold
    /\ Attempts = 2 /\ Attempts < Call.max_retries
    /\ Call.kind = "returned"

\* C17: the delay slept before attempt k (k >= 2) is
\* retry_delay * 2^(k - 2); every attempt but the last of a call is followed
\* by exactly one delay and the last attempt, failed or successful, by none;
\* the call takes the time of its delays.
C17_Backoff ==
    Cold =>
      /\ Len(Call.sleeps) = (IF Attempts = 0 THEN 0 ELSE Attempts - 1)
      /\ \A k \in 2..Attempts :
           Call.sleeps[k - 1] = Call.retry_delay * 2^(k - 2)
      /\ clock = Call.started + SumSeq(Call.sleeps)

\* Four failed attempts with a base delay of 2: delays 2, 4 and 8, none after
\* the fourth failure.
C17_Witness ==
    /\ Cold
    /\ Call.retry_delay = 2 * DEFAULT_RETRY_DELAY
    /\ Attempts = DEFAULT_MAX_RETRIES + 1
    /\ Call.kind = "raised"
    /\ Call.sleeps = <<2 * DEFAULT_RETRY_DELAY, 4 * DEFAULT_RETRY_DELAY,
                       8 * DEFAULT_RETRY_DELAY>>

\* The attempts of the call are exhausted: max_retries of them, at least
\* one, and each met a RequestException.
Exhausted ==
    /\ Cold
    /\ Call.max_retries > 0
    /\ Attempts = Call.max_retries
    /\ \A k \in 1..Attempts : MetRequestException(k)

---------------------------------------------------------------------------
\* The primary observation of the pass that has just returned.
HasPrimary == result # <<>> /\ result[1].primary_data # <<>>
Primary == result[1].primary_data[1]

\* C19: OpenWeatherMapClient.get_snow_data never raises.  When the primary
\* request or its extraction fails, the observation is the secondary
\* provider's amount with no forecast, labelled as a fallback; when the
\* secondary provider fails too, it is all zero under a label of its own;
\* otherwise it carries the primary label.  So the pass that called it got an
\* observation and not the error of a failed retrieval.
C19_PrimaryNeverRaises ==
    /\ \A o \in OpenWeatherMapAnswers : \A fb \in FallbackAnswers(o) :
         LET d == OpenWeatherMap_get_snow_data(o, fb)
         IN  /\ ~d.raised
             /\ o.kind # "fail" => d.source = "OpenWeatherMap (Free API)"
             /\ (o.kind = "fail" /\ fb.kind = "ok")
                  => /\ d.source = "Fallback: WeatherAPI.com"
                     /\ d.current_snow = WeatherApi_get_snow_data(fb).snow_inches
                     /\ d.forecast_snow = 0
             /\ (o.kind = "fail" /\ fb.kind # "ok")
                  => /\ d.source = "Default values (API errors)"
                     /\ d.current_snow = 0
                     /\ d.forecast_snow = 0
    /\ (result # <<>> /\ Count(result[1].calls, "get_resort_snow_data") > 0)
         => (HasPrimary /\ result[1].error # "Failed to retrieve weather data")

\* A pass whose primary provider failed and whose observation came from
\* the secondary provider, with snow.
C19_Witness ==
    /\ HasPrimary
    /\ Primary.source = "Fallback: WeatherAPI.com"
    /\ Primary.current_snow > 0
    /\ Primary.forecast_snow = 0

\* C20 as stated: get_resort_snow_data raises when the providers' requests
\* fail or their data cannot be parsed, so a pass for a resort whose
\* providers are both down records an error: a pass that retrieved and
\* ended without an error had an observation from a provider, not the
\* zeroed one made up when both are down.
C20_Original ==
    (/\ result # <<>>
     /\ Count(result[1].calls, "get_resort_snow_data") > 0
     /\ result[1].error = None)
      => (HasPrimary /\ Primary.source # "Default values (API errors)")

---------------------------------------------------------------------------
\* Vocabulary of the adapter properties: the observation just returned.
ObservedPrimary == observation # <<>> /\ observation[1].adapter = "OpenWeatherMap"
ObservedSecondary == observation # <<>> /\ observation[1].adapter = "WeatherAPI.com"
Observed == observation[1].data

\* The amount a "snow" entry reports, 0 when it reports none.
AmountOf(snow) == IF snow.shape \in {"scalar", "nested"} THEN snow.amount ELSE 0

RECURSIVE SumAmounts(_)
SumAmounts(list) ==
    IF list = <<>> THEN 0 ELSE AmountOf(Head(list)) + SumAmounts(Tail(list))

FirstPeriods(list) == SubSeq(list, 1, Min(FORECAST_PERIODS, Len(list)))

\* The current conditions arrived and their "snow" entry can be read.
CurrentReadable ==
    /\ provider.current.kind = "ok"
    /\ ~current_snow_of(provider.current.snow).raised

\* The forecast arrived and the snow entries of its first 8 periods can be
\* read.
ForecastReadable == ~forecast_snow_of(provider.list).raised

\* C21 as stated: the primary adapter's forecast snow is the sum of the snow
\* amounts of the first 8 forecast periods, of all of them when there are
\* fewer, 0 when there are none; later periods never contribute.
C21_Original ==
    (ObservedPrimary /\ CurrentReadable)
      => Observed.forecast_snow = Inches10(SumAmounts(FirstPeriods(provider.list)))

\* What holds of the forecast window: when every snow entry of the first 8
\* periods is absent or nested, the forecast snow is their sum.
C21_Window ==
    (ObservedPrimary /\ CurrentReadable /\ ForecastReadable)
      => Observed.forecast_snow = Inches10(SumAmounts(FirstPeriods(provider.list)))

\* Nine periods of which the ninth does not count.
C21_WindowWitness ==
    /\ ObservedPrimary /\ CurrentReadable /\ ForecastReadable
    /\ Len(provider.list) > FORECAST_PERIODS
    /\ Observed.forecast_snow = Inches10(FORECAST_PERIODS * Usual.amount)

\* C22 as stated: for every shape of the current-conditions payload the
\* primary adapter returns a numeric, non-negative current_snow labelled as
\* primary data: the nested "1h" amount when present, else the scalar, else 0.
C22_Original ==
    (ObservedPrimary /\ provider.current.kind = "ok" /\ ForecastReadable)
      => /\ Observed.numeric
         /\ Observed.current_snow >= 0
         /\ Observed.source = "OpenWeatherMap (Free API)"
         /\ Observed.current_snow = Inches10(AmountOf(provider.current.snow))

\* C23: the secondary adapter gives snow_inches = totalsnow_cm / 2.54, so
\* 12.7 cm is 5.0 in (within 0.05), and 0 when the total is missing at any
\* level of the payload; the inches, not the centimetres, are what the
\* primary adapter's fallback passes on as current_snow.
C23_Conversion ==
    /\ (ObservedSecondary /\ provider.secondary.kind = "ok"
          /\ provider.secondary.total \notin {"null", "empty_forecastday"})
         => /\ ~Observed.raised
            /\ Observed.snow_inches * CM_PER_INCH_X100
                 = provider.secondary.mm * 10 * Scale
            /\ provider.secondary.total # "number" => Observed.snow_inches = 0
            /\ provider.secondary.mm = 127
                 => 20 * Abs(Observed.snow_inches - 5 * Scale) <= Scale
    /\ (ObservedPrimary /\ Observed.source = "Fallback: WeatherAPI.com")
         => Observed.current_snow * CM_PER_INCH_X100
              = WeatherApiAnswerOf(provider.secondary).mm * 10 * Scale

\* 12.7 cm reported by the secondary provider: 5.0 in.
C23_Witness ==
    /\ ObservedSecondary
    /\ provider.secondary.total = "number"
    /\ provider.secondary.mm = 127
    /\ Observed.snow_inches = 5 * Scale

\* A payload without totalsnow_cm: 0 in.
C23_WitnessMissing ==
    /\ ObservedSecondary
    /\ provider.secondary.total = "no_day"
    /\ ~Observed.raised
    /\ Observed.snow_inches = 0

---------------------------------------------------------------------------
\* Something failed while the pass that has just returned was processing
\* its resort: the resort has no coordinates, the retrieval raised, both
\* providers' requests failed, or the observation is not a number.
FailedWhileProcessing ==
    /\ result # <<>>
    /\ \/ Count(result[1].calls, "get_resort_snow_data") = 0
       \/ ~HasPrimary
       \/ HasPrimary /\ Primary.source = "Default values (API errors)"
       \/ HasPrimary /\ ~Primary.numeric

\* C24 as stated: process_resort never raises (every pass returns its dict)
\* and any failure while processing the resort is recorded in the error
\* field of that dict.
C24_Original ==
    FailedWhileProcessing => result[1].error # None

----------------------------------------------------------------------------
\* Vocabulary of the runs of lambda_handler.
Running == batch # <<>>
Returned == IF batch = <<>> THEN FALSE ELSE batch[1].returned
Run == batch[1]
SeqRange(seq) == {seq[i] : i \in DOMAIN seq}
Processed == {Run.resorts[i] : i \in 1..Run.resorts_processed}

\* C25: after process_all_resorts every configured resort has exactly one
\* entry in results, resorts_processed is the number of configured
\* resorts, alerts_triggered is the number of entries with alert_triggered
\* true and errors is the number of entries with a non-empty error; during
\* the loop the same holds of the resorts processed so far.
C25_BatchCounts ==
    Running =>
        /\ Cardinality(SeqRange(Run.resorts)) = Len(Run.resorts)
        /\ DOMAIN Run.results = Processed
        /\ \A r \in Processed : Run.results[r].resort = r
        /\ Run.resorts_processed = Cardinality(DOMAIN Run.results)
        /\ Run.alerts_triggered =
               Cardinality({r \in DOMAIN Run.results :
                                Run.results[r].alert_triggered})
        /\ Run.errors =
               Cardinality({r \in DOMAIN Run.results :
                                /\ Run.results[r].error # None
                                /\ Run.results[r].error # ""})
        /\ Returned =>
               /\ DOMAIN Run.results = SeqRange(Run.resorts)
               /\ Run.resorts_processed = Len(Run.resorts)

\* A run over two resorts has returned: one resort alerted, the other
\* ended with an error.
C25_Witness ==
    /\ Returned
    /\ Run.resorts_processed = 2
    /\ Run.alerts_triggered = 1
    /\ Run.errors = 1

\* A run has returned whose first resort ended with an error and whose
\* second resort was processed nonetheless.
C25_WitnessAfterError ==
    /\ Returned
    /\ Len(Run.resorts) = 2
    /\ Run.results[Run.resorts[1]].error # None
    /\ Run.results[Run.resorts[2]].alert_triggered

----------------------------------------------------------------------------
\* C26: over the passes of one processor the last-alert time of a pair
\* (resort, category) is absent until the first alert of the pair fires, is
\* set to the current time by every pass that triggers an alert of the
\* pair, is never deleted and never moves backwards, and changes in no
\* other way.
C26_LastAlertTimes ==
    /\ [](\A resort_name \in Resorts : \A category \in Categories :
            Stored(resort_name, category)
                => /\ \E i \in DOMAIN alert_log :
                          /\ alert_log[i].resort = resort_name
                          /\ alert_log[i].category = category
                          /\ alert_log[i].time
                                 <= last_alerts[resort_name][category]
                   /\ last_alerts[resort_name][category] <= now)
    /\ [][\A resort_name \in Resorts : \A category \in Categories :
            LET before == LastAlert(last_alerts, resort_name, category)
                after == LastAlert(last_alerts', resort_name, category)
                fires == /\ result = <<>>
                         /\ result' # <<>>
                         /\ result'[1].alert_triggered
                         /\ result'[1].resort = resort_name
                         /\ result'[1].alert_category = category
            IN  /\ after >= before
                /\ fires => after = now'
                /\ ~fires => after = before]_vars

\* A second alert of a pair has fired, after the cooldown of the first, and
\* the stored time is the time of the second.
C26_Witness ==
    /\ result # <<>>
    /\ result[1].alert_triggered
    /\ \E i \in DOMAIN alert_log :
          /\ alert_log[i].resort = result[1].resort
          /\ alert_log[i].category = result[1].alert_category
          /\ alert_log[i].time < now
    /\ LastAlert(last_alerts, result[1].resort, result[1].alert_category) = now

----------------------------------------------------------------------------
\* The alerts of the log that earlier runs of lambda_handler triggered for
\* the resort and the category: the run under way adds at most one entry
\* for a resort, the last one.
EarlierAlerts(resort_name, category) ==
    {i \in DOMAIN alert_log :
        /\ alert_log[i].resort = resort_name
        /\ alert_log[i].category = category
        /\ \/ ~Run.results[resort_name].alert_triggered
           \/ \E j \in DOMAIN alert_log :
                 j > i /\ alert_log[j].resort = resort_name}

\* C27 as stated: a run of lambda_handler that starts less than the
\* cooldown after an earlier run's alert of a category for a resort neither
\* triggers nor sends an alert of that category for that resort.
C27_Original ==
    Running =>
        \A resort_name \in DOMAIN Run.results :
            LET resort_result == Run.results[resort_name]
            IN  (/\ resort_result.verified
                 /\ determine_alert_category(
                        resort_result.time_window_data[1].current_24h)
                        \in Categories
                 /\ \E i \in EarlierAlerts(
                                 resort_name,
                                 determine_alert_category(
                                     resort_result.time_window_data[1].current_24h)) :
                        Run.timestamp < alert_log[i].time + ALERT_COOLDOWN_HOURS)
                    => /\ ~resort_result.alert_triggered
                       /\ ~InSeq(Run.deliveries, resort_name)

----------------------------------------------------------------------------
C28_WitnessZero ==
    /\ Cold
    /\ Call.max_retries = 0
    /\ Attempts = 0
    /\ Call.sleeps = <<>>
    /\ Call.kind = "raised"

----------------------------------------------------------------------------
\* C29 as stated: whatever the three thresholds are set to, in order or
\* not, every alert a pass triggers has been verified by a verification
\* request of that pass.
C29_Original ==
    (result # <<>> /\ result[1].alert_triggered)
        => /\ result[1].verified
           /\ Count(result[1].calls, "verify_with_secondary_source") = 1

----------------------------------------------------------------------------
\* Two requests that differ in the endpoint or in a name/value pair get
\* different keys.
OtherRequestOtherKey ==
    \A e1, e2 \in {"weather", "forecast"} : \A p, q \in ParamDicts :
       (e1 # e2 \/ PairsOf(p) # PairsOf(q))
          => get_cache_key(e1, p) # get_cache_key(e2, q)

\* C30: two requests that differ in the endpoint or in the value of a
\* parameter get different cache keys; every payload in the cache is stored
\* under the key of the request it was fetched for, and a call served from
\* the cache gets a payload that was fetched for its own endpoint and
\* parameters.
C30_CacheIsolation ==
    /\ OtherRequestOtherKey
    /\ \A cache_key \in DOMAIN cache :
         \A request \in Requests :
            (cache_key = get_cache_key(request.endpoint, request.params))
               <=> /\ cache[cache_key].endpoint = request.endpoint
                   /\ cache[cache_key].params = PairsOf(request.params)
    /\ (Responded /\ Call.from_cache)
         => /\ Call.payload.endpoint = Call.endpoint
            /\ Call.payload.params = PairsOf(Call.params)

\* While the payload of one request was in the cache and fresh, a call for
\* the same endpoint with another latitude went to the network and left a
\* second entry.
C30_Witness ==
    /\ Responded /\ cache_enabled
    /\ ~Call.from_cache
    /\ Call.kind = "returned"
    /\ \E cache_key \in DOMAIN cache :
          /\ cache_key # CallKey
          /\ cache[cache_key].endpoint = Call.endpoint
          /\ cache[cache_key].params # PairsOf(Call.params)
          /\ Call.started < cache_expiry[cache_key]

\* A call served from the cache with the payload fetched by an earlier call
\* for the same request.
C30_WitnessHit ==
    /\ Responded /\ Call.from_cache
    /\ Call.payload.endpoint = Call.endpoint
    /\ Call.payload.params = PairsOf(Call.params)
    /\ Call.started > 0

----------------------------------------------------------------------------
\* C31 as stated: of two process_resort calls that run at the same time on
\* one processor for the same resort, at most one triggers an alert of a
\* given category.
C31_Original ==
    \A t1, t2 \in Threads :
        (/\ t1 # t2
         /\ in_flight[t1] # <<>>
         /\ in_flight[t2] # <<>>
         /\ in_flight[t1][1].resort = in_flight[t2][1].resort
         /\ in_flight[t1][1].result.alert_triggered)
            => \/ ~in_flight[t2][1].result.alert_triggered
               \/ in_flight[t2][1].result.alert_category
                      # in_flight[t1][1].result.alert_category

----------------------------------------------------------------------------
\* C32 as stated: in a run of lambda_handler every resort whose result has
\* alert_triggered true gets exactly one delivery attempt, whatever
\* happened to the deliveries before it, and the run answers statusCode
\* 200.
C32_Original ==
    Returned =>
        /\ \A resort_name \in DOMAIN Run.results :
              Run.results[resort_name].alert_triggered
                 => Count(Run.deliveries, resort_name) = 1
        /\ Run.statusCode = 200

----------------------------------------------------------------------------
\* C33: a pass that does not trigger an alert, whatever the reason, leaves
\* the whole last-alert map as it was, and a result with an error has
\* alert_triggered false.
C33_NoAlertFrame ==
    /\ []((result # <<>> /\ result[1].error # None)
             => ~result[1].alert_triggered)
    /\ [][(result = <<>> /\ result' # <<>> /\ ~result'[1].alert_triggered)
             => last_alerts' = last_alerts]_vars

\* A pass for a resort with a stored alert time ended with an error.
C33_Witness ==
    /\ result # <<>>
    /\ result[1].error # None
    /\ ~result[1].alert_triggered
    /\ \E category \in Categories : Stored(result[1].resort, category)

\* A verified pass did not alert because of the cooldown of its category.
C33_WitnessCooldown ==
    /\ Measuring
    /\ result[1].verified
    /\ result[1].error = None
    /\ ~result[1].alert_triggered
    /\ determine_alert_category(Current24h) \in Categories
    /\ is_in_cooldown(result[1].resort, determine_alert_category(Current24h))

----------------------------------------------------------------------------
\* What the providers would answer to the requests that a pass without
\* coordinates does not make: heavy snow, a malformed payload, the primary
\* provider down with the secondary one up, and both down.
WouldAnswer ==
    {[o |-> [kind |-> "ok", current |-> 120, forecast |-> 20], fb |-> NoRequest],
     [o |-> [kind |-> "snow_dict", current |-> 0, forecast |-> 0], fb |-> NoRequest],
     [o |-> [kind |-> "fail", current |-> 0, forecast |-> 0],
      fb |-> [kind |-> "ok", mm |-> 305]],
     [o |-> [kind |-> "fail", current |-> 0, forecast |-> 0],
      fb |-> [kind |-> "request_error", mm |-> 0]]}

\* C34: for a resort whose configuration has no coordinates process_resort
\* returns error "Missing coordinates" and alert_triggered false and makes
\* no request to the primary or to the secondary provider, whatever the
\* providers would have answered; a returned result with that error shows
\* no request.
C34_MissingCoordinates ==
    /\ \A resort_name \in Resorts : \A s \in WouldAnswer :
         process_resort(resort_name, FALSE, s.o, s.fb, NoRequest)
            = [result |-> [resort |-> resort_name, timestamp |-> now,
                           alert_triggered |-> FALSE, alert_category |-> None,
                           verified |-> FALSE, error |-> "Missing coordinates",
                           primary_data |-> <<>>, time_window_data |-> <<>>,
                           secondary_data |-> <<>>, calls |-> <<>>,
                           verify_calls |-> <<>>],
               last_alerts |-> last_alerts]
    /\ (result # <<>> /\ result[1].error = "Missing coordinates")
         => /\ ~result[1].alert_triggered
            /\ result[1].calls = <<>>
            /\ result[1].verify_calls = <<>>
            /\ result[1].primary_data = <<>>

\* The second pass of a processor found no coordinates for a resort that
\* had alerted in the first pass.
C34_Witness ==
    /\ result # <<>>
    /\ result[1].error = "Missing coordinates"
    /\ result[1].calls = <<>>
    /\ \E i \in DOMAIN alert_log : alert_log[i].resort = result[1].resort

----------------------------------------------------------------------------
\* C35: in every result of process_resort alert_triggered is true exactly
\* when alert_category is "light", "moderate" or "heavy"; when it is false
\* alert_category is None; "none" is never reported as a category, neither
\* by should_trigger_alert nor in a result.
C35_CategoryIffTriggered ==
    /\ \A resort_name \in Resorts : \A a \in Measured : \A v \in BOOLEAN :
         LET decision == should_trigger_alert(resort_name, a, v)
         IN  /\ decision.should_alert <=> decision.category \in Categories
             /\ ~decision.should_alert => decision.category = None
    /\ result # <<>>
         => /\ result[1].alert_triggered <=> result[1].alert_category \in Categories
            /\ ~result[1].alert_triggered => result[1].alert_category = None
            /\ result[1].alert_category # "none"

\* A pass measured less than the light threshold: its category is None.
C35_Witness ==
    /\ Measuring
    /\ Current24h < THRESHOLD_LIGHT * Scale
    /\ determine_alert_category(Current24h) = "none"
    /\ ~result[1].alert_triggered
    /\ result[1].alert_category = None

\* A pass alerted with the category "light".
C35_WitnessTriggered ==
    /\ Measuring
    /\ result[1].alert_triggered
    /\ result[1].alert_category = "light"
    /\ result[1].error = None

----------------------------------------------------------------------------
\* C36: the alert decision depends on the current-window amount only.  Two
\* passes for the same resort that start from the same cooldown state and
\* see the same current snow and the same answer to the verification
\* request, but different forecast amounts, return the same
\* alert_triggered, the same alert_category and the same verified, and
\* leave the same last-alert map.
C36_ForecastIndependent ==
    (in_flight["T1"] # <<>> /\ in_flight["T2"] # <<>>)
       => LET one == in_flight["T1"][1]
              two == in_flight["T2"][1]
          IN  /\ one.result.alert_triggered = two.result.alert_triggered
              /\ one.result.alert_category = two.result.alert_category
              /\ one.result.verified = two.result.verified
              /\ one.result.calls = two.result.calls
              /\ one.after = two.after

\* Of two such passes the first has a 48 h total below the moderate
\* threshold and the second one at or above it; both alerted "light".
C36_Witness ==
    /\ in_flight["T1"] # <<>> /\ in_flight["T2"] # <<>>
    /\ in_flight["T1"][1].result.time_window_data[1].total_48h
          < THRESHOLD_MODERATE * Scale
    /\ in_flight["T2"][1].result.time_window_data[1].total_48h
          >= THRESHOLD_MODERATE * Scale
    /\ in_flight["T1"][1].result.alert_triggered
    /\ in_flight["T2"][1].result.alert_category = "light"

\* Of two such passes the second has a forecast that lifts its 48 h total
\* to the light threshold; neither verified nor alerted.
C36_WitnessBelow ==
    /\ in_flight["T1"] # <<>> /\ in_flight["T2"] # <<>>
    /\ in_flight["T2"][1].result.time_window_data[1].current_24h
          < THRESHOLD_LIGHT * Scale
    /\ in_flight["T2"][1].result.time_window_data[1].total_48h
          >= THRESHOLD_LIGHT * Scale
    /\ ~in_flight["T2"][1].result.alert_triggered
    /\ in_flight["T2"][1].result.verify_calls = <<>>

----------------------------------------------------------------------------
\* The primary provider is down.
Down == [kind |-> "fail", current |-> 0, forecast |-> 0]

----------------------------------------------------------------------------
\* C38: on the fallback path (the primary provider failed and the primary
\* observation was built from the secondary provider's answer), when the
\* secondary provider answers the verification request with the same
\* payload, verification reports agreement; the alert for the category of
\* that amount then fires unless the category is in its cooldown, on data
\* that came from the secondary provider alone.
C38_FallbackVerifiesItself ==
    (in_flight["T1"] # <<>> /\ in_flight["T2"] = <<>>)
       => \A call \in {in_flight["T1"][1]} :
            (call.fb.kind = "ok" /\ call.w = call.fb)
               => /\ call.result.primary_data[1].source
                        = "Fallback: WeatherAPI.com"
                  /\ call.result.verify_calls = <<"sleep", "weatherapi">>
                  /\ call.result.secondary_data # <<>>
                  /\ call.result.secondary_data[1].snow_inches
                        = call.result.primary_data[1].current_snow
                  /\ call.result.verified
                  /\ call.result.alert_triggered
                        = ~is_in_cooldown(call.resort,
                                          determine_alert_category(
                                              call.result.primary_data[1].current_snow))
                  /\ call.result.alert_triggered
                        => call.result.alert_category
                             = determine_alert_category(
                                   WeatherApi_get_snow_data(call.fb).snow_inches)

\* A fallback pass verified against the payload it was built from, and
\* alerted "heavy".
C38_Witness ==
    /\ in_flight["T1"] # <<>> /\ in_flight["T2"] = <<>>
    /\ in_flight["T1"][1].fb.kind = "ok"
    /\ in_flight["T1"][1].w = in_flight["T1"][1].fb
    /\ in_flight["T1"][1].result.verified
    /\ in_flight["T1"][1].result.alert_triggered
    /\ in_flight["T1"][1].result.alert_category = "heavy"
    /\ in_flight["T1"][1].after # last_alerts

\* A fallback pass verified against the payload it was built from, kept
\* silent by the cooldown of its category.
C38_WitnessCooldown ==
    /\ in_flight["T1"] # <<>> /\ in_flight["T2"] = <<>>
    /\ in_flight["T1"][1].fb.kind = "ok"
    /\ in_flight["T1"][1].w = in_flight["T1"][1].fb
    /\ in_flight["T1"][1].result.verified
    /\ ~in_flight["T1"][1].result.alert_triggered


----------------------------------------------------------------------------
\* C39: a call of _make_request that is served from the cache, and a call
\* that raises (every attempt it made failed, or it made none), leave the
\* cache and the expiry times exactly as they were: a hit does not renew the
\* entry's expiry, and a failed fetch adds, removes and alters no entry, the
\* stale entry of its own key included.
C39_CacheFrame ==
    [][(response = <<>> /\ response' # <<>>
          /\ (response'[1].from_cache \/ response'[1].kind = "raised"))
         => (cache' = cache /\ cache_expiry' = cache_expiry)]_vars

\* A hit some time after the entry was stored: the entry still expires
\* CACHE_TTL after the call that stored it.
C39_Witness ==
    /\ Responded /\ Call.from_cache
    /\ Call.started > 0
    /\ EntryOf(Call) = Call.entry_before
    /\ Call.entry_before[1].expiry < Call.started + CACHE_TTL

\* A call that found its entry expired and whose attempts all failed: the
\* expired entry is still in the cache.
C39_WitnessFailed ==
    /\ Responded /\ cache_enabled
    /\ Call.kind = "raised" /\ NetworkDown
    /\ Call.entry_before # <<>>
    /\ Call.entry_before[1].expiry <= Call.started
    /\ EntryOf(Call) = Call.entry_before


----------------------------------------------------------------------------
\* C40: a call of _make_request with max_retries <= 0 that is not served
\* from the cache (caching is off, or the key has no entry, or its entry has
\* expired) makes no network attempt and sleeps no delay, takes no time,
\* leaves the entry of its key as it found it and raises a plain Exception;
\* it returns no payload, whatever the network would have answered.
C40_NoAttemptsAllowed ==
    (Responded /\ Call.max_retries <= 0 /\ ~(cache_enabled /\ FoundFresh))
       => /\ Call.kind = "raised"
          /\ Call.exc = "Exception"
          /\ Call.payload = None
          /\ Call.log = <<>>
          /\ Call.sleeps = <<>>
          /\ clock = Call.started
          /\ EntryOf(Call) = Call.entry_before

\* A call with max_retries = -1 on a caching client whose entry for the key
\* had expired: it raised without an attempt.
C40_Witness ==
    /\ Responded /\ cache_enabled /\ FoundStale
    /\ Call.max_retries < 0
    /\ Call.kind = "raised"
    /\ Call.log = <<>>

\* A call with max_retries = 0 on a caching client served from a fresh
\* entry: outside the claim's case, it returned the payload.
C40_WitnessFresh ==
    /\ Responded /\ cache_enabled /\ FoundFresh
    /\ Call.max_retries = 0
    /\ Call.kind = "returned"

====
